---- MODULE Spec2Model ----
(***************************************************************************)
(* CogniHub retrieval and ranking engine: the JSON extraction helpers, the *)
(* LLM route advisor (route_rag) and the LLM reranker (rerank_results).    *)
(*                                                                         *)
(* A text is a sequence of one-character strings.  Python values are       *)
(* records tagged by their type in field t.                                *)
(***************************************************************************)
EXTENDS Integers, Sequences, FiniteSets, TLC

\* ------------------------------------------------------------------------
\* Bounds of the model
\* ------------------------------------------------------------------------

\* Longest text over ScanAlphabet that is enumerated exhaustively.
MaxLen == 4

\* ------------------------------------------------------------------------
\* Python values
\* ------------------------------------------------------------------------

PyNone == [t |-> "none"]

PyBool(b) == [t |-> "bool", b |-> b]

PyInt(n) == [t |-> "int", n |-> n]

\* A float keeps its integer part n (the value truncated toward zero, which
\* is what int() yields) and its fraction digits f.
PyFloat(n, f) == [t |-> "float", n |-> n, f |-> f]

PyStr(s) == [t |-> "str", s |-> s]

PyList(a) == [t |-> "list", a |-> a]

\* kv is the sequence of <<key, value>> pairs in insertion order, keys unique.
PyDict(kv) == [t |-> "dict", kv |-> kv]

\* dict.get(key): the value stored under key, None when the key is absent.
DictGet(d, key) ==
    IF \E n \in 1..Len(d.kv) : d.kv[n][1] = key
    THEN d.kv[CHOOSE n \in 1..Len(d.kv) : d.kv[n][1] = key][2]
    ELSE PyNone

\* d[key] = val: replaces the value in place or appends a new pair.
DictSet(kv, key, val) ==
    IF \E n \in 1..Len(kv) : kv[n][1] = key
    THEN [n \in 1..Len(kv) |-> IF kv[n][1] = key THEN <<key, val>> ELSE kv[n]]
    ELSE Append(kv, <<key, val>>)

\* ------------------------------------------------------------------------
\* str helpers
\* ------------------------------------------------------------------------

IsWs(c) == c \in {" ", "\t", "\n", "\r"}

IsDigit(c) == c \in {"0", "1", "2", "3", "4", "5", "6", "7", "8", "9"}

DigitVal(c) ==
    CASE c = "0" -> 0 [] c = "1" -> 1 [] c = "2" -> 2 [] c = "3" -> 3
      [] c = "4" -> 4 [] c = "5" -> 5 [] c = "6" -> 6 [] c = "7" -> 7
      [] c = "8" -> 8 [] c = "9" -> 9

RECURSIVE LStripFrom(_, _)
\* First index >= p of txt that holds no whitespace (Len(txt)+1 when none).
LStripFrom(txt, p) ==
    IF p <= Len(txt) /\ IsWs(txt[p]) THEN LStripFrom(txt, p + 1) ELSE p

RECURSIVE RStripFrom(_, _)
\* Last index <= p of txt that holds no whitespace (0 when none).
RStripFrom(txt, p) ==
    IF p >= 1 /\ IsWs(txt[p]) THEN RStripFrom(txt, p - 1) ELSE p

\* str.strip()
Strip(txt) == SubSeq(txt, LStripFrom(txt, 1), RStripFrom(txt, Len(txt)))

\* str.find(c): first index of c, 0 when absent (Python's -1).
Find(txt, c) ==
    IF \E n \in 1..Len(txt) : txt[n] = c
    THEN CHOOSE n \in 1..Len(txt) :
            txt[n] = c /\ \A m \in 1..(n - 1) : txt[m] # c
    ELSE 0

\* str.rfind(c): last index of c, 0 when absent (Python's -1).
RFind(txt, c) ==
    IF \E n \in 1..Len(txt) : txt[n] = c
    THEN CHOOSE n \in 1..Len(txt) :
            txt[n] = c /\ \A m \in (n + 1)..Len(txt) : txt[m] # c
    ELSE 0

\* ------------------------------------------------------------------------
\* json.loads: a parse result is [ok, pos, val]; pos is the index after the
\* value.  ok = FALSE stands for json.JSONDecodeError.  Exponents, \u
\* escapes, NaN and Infinity do not occur in the texts explored.
\* ------------------------------------------------------------------------

ParseFail == [ok |-> FALSE, pos |-> 0, val |-> PyNone]

ParseOk(p, v) == [ok |-> TRUE, pos |-> p, val |-> v]

At(txt, p) == IF p >= 1 /\ p <= Len(txt) THEN txt[p] ELSE "EOF"

RECURSIVE ParseStringBody(_, _, _)
\* The characters of a string literal from p on, acc holding those decoded so
\* far, up to the closing quote.
ParseStringBody(txt, p, acc) ==
    LET c == At(txt, p) IN
    CASE c = "EOF" -> ParseFail
      [] c = "\"" -> ParseOk(p + 1, PyStr(acc))
      [] c \in {"\t", "\n", "\r"} -> ParseFail
      [] c = "\\" ->
            LET e == At(txt, p + 1) IN
            CASE e \in {"\"", "\\", "/"} -> ParseStringBody(txt, p + 2, Append(acc, e))
              [] e = "n" -> ParseStringBody(txt, p + 2, Append(acc, "\n"))
              [] e = "t" -> ParseStringBody(txt, p + 2, Append(acc, "\t"))
              [] e = "r" -> ParseStringBody(txt, p + 2, Append(acc, "\r"))
              [] e = "b" -> ParseStringBody(txt, p + 2, Append(acc, "BS"))
              [] e = "f" -> ParseStringBody(txt, p + 2, Append(acc, "FF"))
              [] OTHER -> ParseFail
      [] OTHER -> ParseStringBody(txt, p + 1, Append(acc, c))

RECURSIVE ParseDigits(_, _, _)
\* The run of digits from p on: [pos, n, ds] with n the value of acc followed
\* by the digits and ds the digits read.
ParseDigits(txt, p, r) ==
    IF IsDigit(At(txt, p))
    THEN ParseDigits(txt, p + 1,
            [pos |-> p + 1, n |-> r.n * 10 + DigitVal(txt[p]), ds |-> Append(r.ds, txt[p])])
    ELSE r

\* NUMBER_RE: -?(0|[1-9][0-9]*)(\.[0-9]+)?
ParseNumber(txt, p) ==
    LET neg == At(txt, p) = "-"
        q == IF neg THEN p + 1 ELSE p
        ip == IF At(txt, q) = "0"
              THEN [pos |-> q + 1, n |-> 0, ds |-> <<"0">>]
              ELSE ParseDigits(txt, q, [pos |-> q, n |-> 0, ds |-> <<>>])
        fr == IF At(txt, ip.pos) = "."
              THEN ParseDigits(txt, ip.pos + 1, [pos |-> ip.pos + 1, n |-> 0, ds |-> <<>>])
              ELSE [pos |-> ip.pos, n |-> 0, ds |-> <<>>]
        sgn == IF neg THEN 0 - ip.n ELSE ip.n
    IN  IF ip.ds = <<>> THEN ParseFail
        ELSE IF fr.ds = <<>> THEN ParseOk(ip.pos, PyInt(sgn))
        ELSE ParseOk(fr.pos, PyFloat(sgn, fr.ds))

IsWord(txt, p, w) == p + Len(w) - 1 <= Len(txt) /\ SubSeq(txt, p, p + Len(w) - 1) = w

RECURSIVE ParseValue(_, _)
RECURSIVE ParseElements(_, _, _)
RECURSIVE ParseMembers(_, _, _)

\* The elements of an array from p on (the first element starts at p).
ParseElements(txt, p, acc) ==
    LET v == ParseValue(txt, p)
        q == LStripFrom(txt, v.pos)
    IN  IF ~v.ok THEN ParseFail
        ELSE IF At(txt, q) = "]" THEN ParseOk(q + 1, PyList(Append(acc, v.val)))
        ELSE IF At(txt, q) = ","
             THEN ParseElements(txt, LStripFrom(txt, q + 1), Append(acc, v.val))
        ELSE ParseFail

\* The members of an object from p on (the first key's quote is expected at p).
ParseMembers(txt, p, kv) ==
    IF At(txt, p) # "\"" THEN ParseFail
    ELSE
    LET k == ParseStringBody(txt, p + 1, <<>>)
        c == LStripFrom(txt, k.pos)
        v == ParseValue(txt, LStripFrom(txt, c + 1))
        q == LStripFrom(txt, v.pos)
    IN  IF ~k.ok \/ At(txt, c) # ":" THEN ParseFail
        ELSE IF ~v.ok THEN ParseFail
        ELSE IF At(txt, q) = "}" THEN ParseOk(q + 1, PyDict(DictSet(kv, k.val.s, v.val)))
        ELSE IF At(txt, q) = ","
             THEN ParseMembers(txt, LStripFrom(txt, q + 1), DictSet(kv, k.val.s, v.val))
        ELSE ParseFail

\* scan_once: the JSON value that starts exactly at p.
ParseValue(txt, p) ==
    LET c == At(txt, p) IN
    CASE c = "\"" -> ParseStringBody(txt, p + 1, <<>>)
      [] c = "{" ->
            LET q == LStripFrom(txt, p + 1) IN
            IF At(txt, q) = "}" THEN ParseOk(q + 1, PyDict(<<>>))
            ELSE ParseMembers(txt, q, <<>>)
      [] c = "[" ->
            LET q == LStripFrom(txt, p + 1) IN
            IF At(txt, q) = "]" THEN ParseOk(q + 1, PyList(<<>>))
            ELSE ParseElements(txt, q, <<>>)
      [] c = "n" /\ IsWord(txt, p, <<"n", "u", "l", "l">>) -> ParseOk(p + 4, PyNone)
      [] c = "t" /\ IsWord(txt, p, <<"t", "r", "u", "e">>) -> ParseOk(p + 4, PyBool(TRUE))
      [] c = "f" /\ IsWord(txt, p, <<"f", "a", "l", "s", "e">>) -> ParseOk(p + 5, PyBool(FALSE))
      [] c = "-" \/ IsDigit(c) -> ParseNumber(txt, p)
      [] OTHER -> ParseFail

\* json.loads(txt): one value between optional whitespace, nothing after it.
JsonLoads(txt) ==
    LET v == ParseValue(txt, LStripFrom(txt, 1)) IN
    IF v.ok /\ LStripFrom(txt, v.pos) = Len(txt) + 1 THEN v ELSE ParseFail

\* ------------------------------------------------------------------------
\* State
\* ------------------------------------------------------------------------

VARIABLES
    text,       \* _json_obj_from_text / _extract_json_array: the argument text
    max_size,   \* _json_obj_from_text: the max_size argument
    scan,       \* _json_obj_from_text: the locals i, j, depth, in_string,
                \* escape_next, snippet and the position pc in the function
    ret,        \* _json_obj_from_text: the value returned
    arr,        \* _extract_json_array: the value returned
    query,      \* route_rag: the query argument
    defaults,   \* route_rag: the defaults argument
    reply,      \* route_rag: what the POST to /api/chat came back with
    route,      \* route_rag: the position in the coroutine
    decision,   \* route_rag: the value returned
    results,    \* rerank_results: the results argument
    keep_n,     \* rerank_results: the keep_n argument
    candidates, \* rerank_results: the candidates offered to the LLM
    rerank,     \* rerank_results: the position in the coroutine
    ranked,     \* rerank_results: the list returned, each element given by
                \* its index in results
    provider,   \* retrieve: the provider called ("doc", "web" or "kiwix")
    call,       \* retrieve: _base_url and the arguments query, top_k, kwargs
    site,       \* the Kiwix server: what fetch_page returns for each path
    store,      \* the document store: the documents (one chunk each) it holds
    kpc,        \* retrieve: the position in the coroutine
    found,      \* KiwixRetrievalProvider.retrieve: results (the search results)
    idx,        \* KiwixRetrievalProvider.retrieve: the index of item in results
    pages_meta, \* KiwixRetrievalProvider.retrieve: pages_meta
    query_emb,  \* KiwixRetrievalProvider.retrieve: query_emb
    ingested_doc_ids, \* KiwixRetrievalProvider.retrieve: ingested_doc_ids
    trace,      \* the calls made to kiwix and ragstore so far, in order
    returned,   \* retrieve: the list returned, or that the call raised
    reqs,       \* concurrent retrieve calls in persistent mode: the arguments,
                \* locals and position of each
    cache,      \* app.py: _cache, the entries (key, data, timestamp) in the
                \* order of the dict
    cache_lock, \* app.py: _cache_lock, whether it is held and who waits for it
    clock,      \* app.py: what time.time() returns
    gets,       \* app.py: the _cached_get calls, their arguments, position and
                \* result
    runs,       \* app.py: the runs of a fetcher so far, in order
    chats,      \* chatstore.py: the chats table, one row per chat id
    messages,   \* chatstore.py: the messages table, in the order of id
    tags,       \* chatstore.py: the tags table, the pairs (chat_id, tag)
    msg_seq,    \* chatstore.py: the highest message id given out so far
                \* (AUTOINCREMENT)
    chat_seq,   \* chatstore.py: how many chat ids uuid4 has given out
    last_op,    \* chatstore.py: the last call, its arguments and how it ended
    web_allowed_hosts, \* config.web_allowed_hosts
    web_blocked_hosts, \* config.web_blocked_hosts
    pages,      \* webstore.py: the pages table, content by url
    chunks,     \* webstore.py: the chunks table, in the order of id
    chunk_seq,  \* webstore.py: the highest chunk id given out so far
    fetches,    \* webstore.py: the fetch_and_cache calls, their url, position
                \* and result
    requests    \* webstore.py: the HTTP requests sent so far, in order

varsScan == <<text, scan, ret, arr>>

varsRoute == <<query, defaults, route, decision>>

varsRerank == <<results, keep_n, candidates, rerank, ranked>>

varsRetrieve ==
    <<provider, call, site, store, kpc, found, idx, pages_meta, query_emb,
      ingested_doc_ids, trace, returned>>

\* The variables of the specifications that follow SpecRetrieve.
varsIngest == <<reqs>>

varsCache == <<cache, cache_lock, clock, gets, runs>>

varsChat == <<chats, messages, tags, msg_seq, chat_seq, last_op>>

varsWeb ==
    <<web_allowed_hosts, web_blocked_hosts, pages, chunks, chunk_seq, fetches,
      requests>>

varsStores == <<varsChat, varsWeb>>

varsRest == <<varsIngest, varsCache, varsStores>>

vars ==
    <<text, max_size, scan, ret, arr, reply, query, defaults, route, decision,
      results, keep_n, candidates, rerank, ranked, provider, call, site, store,
      kpc, found, idx, pages_meta, query_emb, ingested_doc_ids, trace, returned,
      reqs, cache, cache_lock, clock, gets, runs, chats, messages, tags,
      msg_seq, chat_seq, last_op, web_allowed_hosts, web_blocked_hosts, pages,
      chunks, chunk_seq, fetches, requests>>

\* A call that has not returned yet.
Pending == [t |-> "pending"]

\* ------------------------------------------------------------------------
\* _json_obj_from_text (rag_routing.py)
\* ------------------------------------------------------------------------

Min(a, b) == IF a <= b THEN a ELSE b

\* IsOpen as it would be if a bracket started a candidate span too.
IsOpenAny(c) == c \in {"{", "["}

\* Line 17: the character that starts a candidate span.
IsOpen(c) == c = "{"

ScanInit == [depth |-> 0, in_string |-> FALSE, escape_next |-> FALSE, closed |-> FALSE]

\* ScanChar without the in_string test of lines 33-34.
ScanCharNoString(st, c) ==
    IF st.escape_next THEN [st EXCEPT !.escape_next = FALSE]
    ELSE IF c = "\\" THEN [st EXCEPT !.escape_next = TRUE]
    ELSE IF c = "\"" THEN [st EXCEPT !.in_string = ~st.in_string]
    ELSE IF c = "{" THEN [st EXCEPT !.depth = st.depth + 1]
    ELSE IF c = "}" THEN [st EXCEPT !.depth = st.depth - 1, !.closed = (st.depth - 1 = 0)]
    ELSE st

\* Lines 23-39: one iteration of the inner loop on character c; closed tells
\* that depth returned to zero on this character.
ScanChar(st, c) ==
    IF st.escape_next THEN [st EXCEPT !.escape_next = FALSE]
    ELSE IF c = "\\" THEN [st EXCEPT !.escape_next = TRUE]
    ELSE IF c = "\"" THEN [st EXCEPT !.in_string = ~st.in_string]
    ELSE IF st.in_string THEN st
    ELSE IF c = "{" THEN [st EXCEPT !.depth = st.depth + 1]
    ELSE IF c = "}" THEN [st EXCEPT !.depth = st.depth - 1, !.closed = (st.depth - 1 = 0)]
    ELSE st

\* Lines 40-44: json.loads(snippet), None on JSONDecodeError.
LoadsOrNone(snippet) ==
    LET v == JsonLoads(snippet) IN IF v.ok THEN v.val ELSE PyNone

\* Line 22: the last index (1-based) the inner loop visits.
LastIndex(txt, i, max) == Min(Len(txt), i - 1 + max)

\* Rejected turning away a text of length exactly max.
RejectedAtCap(txt, max) == txt = <<>> \/ Len(txt) >= max

\* Line 13: the guard that returns None before any scanning.
Rejected(txt, max) == txt = <<>> \/ Len(txt) > max

ScanEntry == [pc |-> "entry", i |-> 0, j |-> 0, depth |-> 0, in_string |-> FALSE,
              escape_next |-> FALSE, snippet |-> <<>>]

RouteIdle ==
    /\ query = <<>>
    /\ defaults = PyDict(<<>>)
    /\ route = "idle"
    /\ decision = Pending

RerankIdle ==
    /\ results = <<>>
    /\ keep_n = 0
    /\ candidates = <<>>
    /\ rerank = "idle"
    /\ ranked = <<>>

RetrieveIdle ==
    /\ provider = "none"
    /\ call = [base_url |-> <<>>, query |-> PyNone, top_k |-> 0, kwargs |-> PyDict(<<>>)]
    /\ site = <<>>
    /\ store = <<>>
    /\ kpc = "idle"
    /\ found = <<>>
    /\ idx = 0
    /\ pages_meta = <<>>
    /\ query_emb = <<>>
    /\ ingested_doc_ids = <<>>
    /\ trace = <<>>
    /\ returned = Pending

IngestIdle == reqs = <<>>

CacheIdle ==
    /\ cache = <<>>
    /\ cache_lock = [locked |-> FALSE, waiters |-> <<>>]
    /\ clock = 0
    /\ gets = <<>>
    /\ runs = <<>>

\* No call was made to chatstore yet.
NoOp ==
    [n |-> 0, op |-> "none", chat_id |-> 0, arg |-> <<>>, raised |-> "",
     value |-> <<>>]

ChatIdle ==
    /\ chats = <<>>
    /\ messages = <<>>
    /\ tags = {}
    /\ msg_seq = 0
    /\ chat_seq = 0
    /\ last_op = NoOp

WebIdle ==
    /\ web_allowed_hosts = <<>>
    /\ web_blocked_hosts = <<>>
    /\ pages = <<>>
    /\ chunks = <<>>
    /\ chunk_seq = 0
    /\ fetches = <<>>
    /\ requests = <<>>

StoresIdle == ChatIdle /\ WebIdle

RestIdle == IngestIdle /\ CacheIdle /\ StoresIdle

ScanIdle ==
    /\ text = <<>>
    /\ scan = ScanEntry
    /\ ret = Pending
    /\ arr = Pending

\* Lines 12-14.
JsonEntry ==
    /\ scan.pc = "entry"
    /\ IF Rejected(text, max_size)
       THEN /\ scan' = [scan EXCEPT !.pc = "done"]
            /\ ret' = PyNone
       ELSE /\ scan' = [scan EXCEPT !.pc = "outer", !.i = 1]
            /\ UNCHANGED ret
    /\ UNCHANGED <<text, max_size, arr, reply>>
    /\ UNCHANGED <<varsRoute, varsRerank, varsRetrieve, varsRest>>

\* Lines 16-21 and 46: one iteration of the outer loop.
JsonOuter ==
    /\ scan.pc = "outer"
    /\ IF scan.i > Len(text)
       THEN /\ scan' = [scan EXCEPT !.pc = "done"]
            /\ ret' = PyNone
       ELSE IF ~IsOpen(text[scan.i])
       THEN /\ scan' = [scan EXCEPT !.i = scan.i + 1]
            /\ UNCHANGED ret
       ELSE /\ scan' = [scan EXCEPT !.pc = "inner", !.j = scan.i, !.depth = 0,
                                    !.in_string = FALSE, !.escape_next = FALSE]
            /\ UNCHANGED ret
    /\ UNCHANGED <<text, max_size, arr, reply>>
    /\ UNCHANGED <<varsRoute, varsRerank, varsRetrieve, varsRest>>

\* JsonInner going on to the next candidate span when the snippet does not
\* parse.
JsonInnerRetry ==
    /\ scan.pc = "inner"
    /\ IF scan.j > LastIndex(text, scan.i, max_size)
       THEN /\ scan' = [scan EXCEPT !.pc = "done"]
            /\ ret' = PyNone
       ELSE LET n == ScanChar([depth |-> scan.depth, in_string |-> scan.in_string,
                               escape_next |-> scan.escape_next, closed |-> FALSE],
                              text[scan.j])
            IN  IF n.closed /\ JsonLoads(SubSeq(text, scan.i, scan.j)).ok
                THEN /\ scan' = [scan EXCEPT !.pc = "done", !.depth = n.depth,
                                    !.snippet = SubSeq(text, scan.i, scan.j)]
                     /\ ret' = LoadsOrNone(SubSeq(text, scan.i, scan.j))
                ELSE IF n.closed
                THEN /\ scan' = [scan EXCEPT !.pc = "outer", !.i = scan.i + 1]
                     /\ UNCHANGED ret
                ELSE /\ scan' = [scan EXCEPT !.j = scan.j + 1, !.depth = n.depth,
                                    !.in_string = n.in_string,
                                    !.escape_next = n.escape_next]
                     /\ UNCHANGED ret
    /\ UNCHANGED <<text, max_size, arr, reply>>
    /\ UNCHANGED <<varsRoute, varsRerank, varsRetrieve, varsRest>>

\* Lines 22-45: one iteration of the inner loop.
JsonInner ==
    /\ scan.pc = "inner"
    /\ IF scan.j > LastIndex(text, scan.i, max_size)
       THEN /\ scan' = [scan EXCEPT !.pc = "done"]
            /\ ret' = PyNone
       ELSE LET n == ScanChar([depth |-> scan.depth, in_string |-> scan.in_string,
                               escape_next |-> scan.escape_next, closed |-> FALSE],
                              text[scan.j])
            IN  IF n.closed
                THEN /\ scan' = [scan EXCEPT !.pc = "done", !.depth = n.depth,
                                    !.snippet = SubSeq(text, scan.i, scan.j)]
                     /\ ret' = LoadsOrNone(SubSeq(text, scan.i, scan.j))
                ELSE /\ scan' = [scan EXCEPT !.j = scan.j + 1, !.depth = n.depth,
                                    !.in_string = n.in_string,
                                    !.escape_next = n.escape_next]
                     /\ UNCHANGED ret
    /\ UNCHANGED <<text, max_size, arr, reply>>
    /\ UNCHANGED <<varsRoute, varsRerank, varsRetrieve, varsRest>>

\* Lines 16-18: the index of the first character that starts a span, 0 if none.
FirstOpen(txt) ==
    IF \E n \in 1..Len(txt) : IsOpen(txt[n])
    THEN CHOOSE n \in 1..Len(txt) :
            IsOpen(txt[n]) /\ \A m \in 1..(n - 1) : ~IsOpen(txt[m])
    ELSE 0

RECURSIVE ScanSpan(_, _, _, _)
\* Lines 22-39: the index at which the span that is scanned from j on in state
\* st closes, 0 when the loop runs out first.
ScanSpan(txt, j, last, st) ==
    IF j > last THEN 0
    ELSE LET n == ScanChar(st, txt[j]) IN
         IF n.closed THEN j ELSE ScanSpan(txt, j + 1, last, n)

\* _json_obj_from_text as one call (lines 11-46).
JsonObjFromText(txt, max) ==
    IF Rejected(txt, max) THEN PyNone
    ELSE LET i == FirstOpen(txt) IN
         IF i = 0 THEN PyNone
         ELSE LET j == ScanSpan(txt, i, LastIndex(txt, i, max), ScanInit) IN
              IF j = 0 THEN PyNone ELSE LoadsOrNone(SubSeq(txt, i, j))

\* ------------------------------------------------------------------------
\* _extract_json_array (rerank.py)
\* ------------------------------------------------------------------------

\* ExtractJsonArray ending the snippet at the first "]" after the first "[".
ExtractJsonArrayFirstClose(txt) ==
    LET s == Strip(txt)
        start == Find(s, "[")
        end == IF start = 0 THEN 0
               ELSE LET r == Find(SubSeq(s, start, Len(s)), "]") IN
                    IF r = 0 THEN 0 ELSE start + r - 1
    IN  IF s = <<>> THEN PyNone
        ELSE IF start = 0 \/ end = 0 \/ end <= start THEN PyNone
        ELSE LET v == JsonLoads(SubSeq(s, start, end)) IN
             IF v.ok /\ v.val.t = "list" THEN v.val ELSE PyNone

\* Lines 11-24.
ExtractJsonArray(txt) ==
    LET s == Strip(txt)
        start == Find(s, "[")
        end == RFind(s, "]")
    IN  IF s = <<>> THEN PyNone
        ELSE IF start = 0 \/ end = 0 \/ end <= start THEN PyNone
        ELSE LET v == JsonLoads(SubSeq(s, start, end)) IN
             IF v.ok /\ v.val.t = "list" THEN v.val ELSE PyNone

\* The call _extract_json_array(text).
ExtractArray ==
    /\ scan.pc = "done"
    /\ arr = Pending
    /\ arr' = ExtractJsonArray(text)
    /\ UNCHANGED <<text, max_size, scan, ret, reply>>
    /\ UNCHANGED <<varsRoute, varsRerank, varsRetrieve, varsRest>>

\* ------------------------------------------------------------------------
\* The LLM chat call shared by route_rag and rerank_results
\* ------------------------------------------------------------------------

KMessage == <<"m", "e", "s", "s", "a", "g", "e">>

KContent == <<"c", "o", "n", "t", "e", "n", "t">>

\* Python truthiness: what `v or other` treats as false.
Falsy(v) ==
    \/ v.t = "none"
    \/ v.t = "bool" /\ ~v.b
    \/ v.t = "int" /\ v.n = 0
    \/ v.t = "float" /\ v.n = 0 /\ \A n \in 1..Len(v.f) : v.f[n] = "0"
    \/ v.t = "str" /\ v.s = <<>>
    \/ v.t = "list" /\ v.a = <<>>
    \/ v.t = "dict" /\ v.kv = <<>>

\* An exception raised inside the try block.
Raise == [exc |-> TRUE, content |-> <<>>]

\* LlmContent with raise_for_status() left out.
LlmContentAnyStatus(r) ==
    IF r.kind # "response" THEN Raise
    ELSE IF r.body.t # "dict" THEN Raise
    ELSE LET m == DictGet(r.body, KMessage)
             m2 == IF Falsy(m) THEN PyDict(<<>>) ELSE m
         IN  IF m2.t # "dict" THEN Raise
             ELSE LET c == DictGet(m2, KContent)
                      c2 == IF Falsy(c) THEN PyStr(<<>>) ELSE c
                  IN  IF c2.t # "str" THEN Raise
                      ELSE [exc |-> FALSE, content |-> Strip(c2.s)]

\* rag_routing.py lines 98-100 (rerank.py lines 82-84): the POST, the status
\* check and ((r.json().get("message") or {}).get("content") or "").strip().
\* A reply is a transport failure (kind "connect_error" or "timeout") or a
\* response with a status and a body; body is what r.json() returns, a body
\* tagged "invalid" being one that r.json() cannot decode.
LlmContent(r) ==
    IF r.kind # "response" THEN Raise
    ELSE IF r.status < 200 \/ r.status > 299 THEN Raise
    ELSE IF r.body.t # "dict" THEN Raise
    ELSE LET m == DictGet(r.body, KMessage)
             m2 == IF Falsy(m) THEN PyDict(<<>>) ELSE m
         IN  IF m2.t # "dict" THEN Raise
             ELSE LET c == DictGet(m2, KContent)
                      c2 == IF Falsy(c) THEN PyStr(<<>>) ELSE c
                  IN  IF c2.t # "str" THEN Raise
                      ELSE [exc |-> FALSE, content |-> Strip(c2.s)]

\* ------------------------------------------------------------------------
\* route_rag (rag_routing.py)
\* ------------------------------------------------------------------------

KUseDocs == <<"u", "s", "e", "_", "d", "o", "c", "s">>

KUseWeb == <<"u", "s", "e", "_", "w", "e", "b">>

KUseKiwix == <<"u", "s", "e", "_", "k", "i", "w", "i", "x">>

KDocGroup == <<"d", "o", "c", "_", "g", "r", "o", "u", "p">>

KDocSource == <<"d", "o", "c", "_", "s", "o", "u", "r", "c", "e">>

KDocQuery == <<"d", "o", "c", "_", "q", "u", "e", "r", "y">>

KWebQuery == <<"w", "e", "b", "_", "q", "u", "e", "r", "y">>

KKiwixQuery == <<"k", "i", "w", "i", "x", "_", "q", "u", "e", "r", "y">>

\* Line 110.
BoolKeys == <<KUseDocs, KUseWeb, KUseKiwix>>

\* Line 114.
StrKeys == <<KDocGroup, KDocSource, KDocQuery, KWebQuery, KKiwixQuery>>

\* MergeBool taking any value that is present for a boolean.
MergeBoolTruthy(obj, out, key) ==
    IF DictGet(obj, key) # PyNone
    THEN DictSet(out, key, PyBool(~Falsy(DictGet(obj, key))))
    ELSE out

\* Lines 111-112.
MergeBool(obj, out, key) ==
    IF DictGet(obj, key).t = "bool"
    THEN DictSet(out, key, PyBool(DictGet(obj, key).b))
    ELSE out

\* Lines 115-120.
MergeStr(obj, out, key) ==
    LET val == DictGet(obj, key) IN
    IF val.t = "str"
    THEN LET v == Strip(val.s) IN
         DictSet(out, key, IF v # <<>> THEN PyStr(v) ELSE PyNone)
    ELSE IF val = PyNone THEN DictSet(out, key, PyNone)
    ELSE out

RECURSIVE MergeBools(_, _, _)
\* Lines 110-112: the loop over the boolean keys from index n on.
MergeBools(obj, out, n) ==
    IF n > Len(BoolKeys) THEN out
    ELSE MergeBools(obj, MergeBool(obj, out, BoolKeys[n]), n + 1)

RECURSIVE MergeStrs(_, _, _)
\* Lines 114-120: the loop over the string keys from index n on.
MergeStrs(obj, out, n) ==
    IF n > Len(StrKeys) THEN out
    ELSE MergeStrs(obj, MergeStr(obj, out, StrKeys[n]), n + 1)

\* Lines 104-122: the decision made from the content of the reply.
RouteDecide(dflt, content, max) ==
    LET obj == JsonObjFromText(content, max) IN
    IF obj.t # "dict" THEN dflt
    ELSE PyDict(MergeStrs(obj, MergeBools(obj, dflt.kv, 1), 1))

\* RouteFinish returning an empty decision when the call fails.
RouteFinishEmpty(dflt, r, max) ==
    LET c == LlmContent(r) IN
    IF c.exc THEN PyDict(<<>>) ELSE RouteDecide(dflt, c.content, max)

\* Lines 97-122: what route_rag returns once the POST has come back with r.
RouteFinish(dflt, r, max) ==
    LET c == LlmContent(r) IN
    IF c.exc THEN dflt ELSE RouteDecide(dflt, c.content, max)

\* ------------------------------------------------------------------------
\* Inputs of the extractors
\* ------------------------------------------------------------------------

ScanAlphabet == {"{", "}", "[", "]", "\"", "\\"}

RECURSIVE TextsUpTo(_)
\* Every text over ScanAlphabet of length at most n.
TextsUpTo(n) ==
    IF n = 0 THEN {<<>>}
    ELSE LET S == TextsUpTo(n - 1) IN
         S \cup {Append(u, c) : u \in {w \in S : Len(w) = n - 1}, c \in ScanAlphabet}

\* noise {"a": 1, "b": "x}y"} trailing
TextNoiseObject ==
    <<"n", "o", "i", "s", "e", " ", "{", "\"", "a", "\"", ":", " ", "1",
      ",", " ", "\"", "b", "\"", ":", " ", "\"", "x", "}", "y", "\"", "}",
      " ", "t", "r", "a", "i", "l", "i", "n", "g">>

\* {"a": }
TextMalformed == <<"{", "\"", "a", "\"", ":", " ", "}">>

\* he wrote "{x" then {"a":1}
TextQuotedBrace ==
    <<"h", "e", " ", "w", "r", "o", "t", "e", " ", "\"", "{", "x", "\"",
      " ", "t", "h", "e", "n", " ", "{", "\"", "a", "\"", ":", "1", "}">>

\* {"a":"q\"}"} {}
TextEscapedQuote ==
    <<"{", "\"", "a", "\"", ":", "\"", "q", "\\", "\"", "}", "\"", "}",
      " ", "{", "}">>

\* [1,2] {"a":1}
TextArrayThenObject ==
    <<"[", "1", ",", "2", "]", " ", "{", "\"", "a", "\"", ":", "1", "}">>

\* [{"a":1}]
TextArrayOfObject == <<"[", "{", "\"", "a", "\"", ":", "1", "}", "]">>

\* {"a": } {"b":1}
TextMalformedThenObject ==
    <<"{", "\"", "a", "\"", ":", " ", "}", " ", "{", "\"", "b", "\"", ":",
      "1", "}">>

\* {"a":[1,2]}
TextObjectOfArray == <<"{", "\"", "a", "\"", ":", "[", "1", ",", "2", "]", "}">>

SampleTexts ==
    {TextNoiseObject, TextMalformed, TextQuotedBrace, TextEscapedQuote,
     TextArrayThenObject, TextArrayOfObject, TextMalformedThenObject,
     TextObjectOfArray}

\* The two values of max_size explored: one that the longest enumerated texts
\* exceed, and one above every text.
SmallCap == 3

LargeCap == 64

InitJson ==
    /\ text \in TextsUpTo(MaxLen) \cup SampleTexts
    /\ max_size \in {SmallCap, LargeCap}
    /\ scan = ScanEntry
    /\ ret = Pending
    /\ arr = Pending
    /\ reply = Pending
    /\ RouteIdle
    /\ RerankIdle
    /\ RetrieveIdle
    /\ RestIdle

NextJson == JsonEntry \/ JsonOuter \/ JsonInner \/ ExtractArray

SpecJson == InitJson /\ [][NextJson]_vars

\* ------------------------------------------------------------------------
\* Inputs of route_rag
\* ------------------------------------------------------------------------

KOther == <<"o", "t", "h", "e", "r">>

TokTrue == <<"t", "r", "u", "e">>

TokFalse == <<"f", "a", "l", "s", "e">>

TokStrTrue == <<"\"", "t", "r", "u", "e", "\"">>

TokOne == <<"1">>

TokZero == <<"0">>

TokNull == <<"n", "u", "l", "l">>

TokStrE == <<"\"", "e", "\"">>

TokStrPadded == <<"\"", " ", "e", " ", "\"">>

TokStrBlank == <<"\"", " ", "\"">>

TokStrEmpty == <<"\"", "\"">>

TokList == <<"[", "1", "]">>

TokDict == <<"{", "}">>

\* The JSON values the LLM writes for a field.
Tokens ==
    {TokTrue, TokFalse, TokStrTrue, TokOne, TokZero, TokNull, TokStrE,
     TokStrPadded, TokStrBlank, TokStrEmpty, TokList, TokDict}

\* The keys the LLM writes: the eight of the schema and one outside it.
ReplyKeys ==
    {KUseDocs, KUseWeb, KUseKiwix, KDocGroup, KDocSource, KDocQuery,
     KWebQuery, KKiwixQuery, KOther}

\* "key": token
Field(k, tok) == <<"\"">> \o k \o <<"\"", ":", " ">> \o tok

Fields == {Field(k, tok) : k \in ReplyKeys, tok \in Tokens}

\* A well-typed field written after another one.
SecondFields == {Field(KUseWeb, TokFalse), Field(KWebQuery, TokStrE)}

\* {f}
Obj1(f) == <<"{">> \o f \o <<"}">>

\* {f, g}
Obj2(f, g) == <<"{">> \o f \o <<",", " ">> \o g \o <<"}">>

\* Sure: {f} ok
Wrapped(f) == <<"S", "u", "r", "e", ":", " ">> \o Obj1(f) \o <<" ", "o", "k">>

\* The contents the LLM answers with.
RouteTexts ==
    {Obj1(f) : f \in Fields}
        \cup {Obj2(f, g) : f \in Fields, g \in SecondFields}
        \cup {Wrapped(f) : f \in {Field(KUseDocs, TokTrue), Field(KUseDocs, TokFalse),
                                  Field(KDocGroup, TokStrE)}}
        \cup {<<>>, <<"n", "o">>, TokList, TokDict, TextMalformed,
              TextMalformedThenObject, TextArrayOfObject,
              <<"{">> \o Field(KUseDocs, <<"t", "r", "u">>)}

\* {"message": {"content": txt}}
ChatBody(txt) == PyDict(<< <<KMessage, PyDict(<< <<KContent, PyStr(txt)>> >>)>> >>)

\* The bodies of a response: the chat shape around each content, and the
\* shapes that lack message.content or hold something else in its place.
RouteBodies ==
    {ChatBody(txt) : txt \in RouteTexts}
        \cup {[t |-> "invalid"], PyList(<<>>), PyDict(<<>>),
              PyDict(<< <<KMessage, PyNone>> >>),
              PyDict(<< <<KMessage, PyStr(<<"h", "i">>)>> >>),
              PyDict(<< <<KMessage, PyDict(<<>>)>> >>),
              PyDict(<< <<KMessage, PyDict(<< <<KContent, PyNone>> >>)>> >>),
              PyDict(<< <<KMessage, PyDict(<< <<KContent, PyInt(5)>> >>)>> >>)}

\* The bodies sent along with a non-2xx status.
ErrorBodies ==
    {PyDict(<<>>), ChatBody(Obj1(Field(KUseDocs, TokTrue))),
     ChatBody(Obj1(Field(KUseDocs, TokFalse)))}

RouteReplies ==
    {[kind |-> "connect_error"], [kind |-> "timeout"]}
        \cup {[kind |-> "response", status |-> 200, body |-> b] : b \in RouteBodies}
        \cup {[kind |-> "response", status |-> st, body |-> b] :
                st \in {404, 500}, b \in ErrorBodies}

Nullable(s) == IF s = <<>> THEN PyNone ELSE PyStr(s)

\* A complete RouteDecision.
RouteDefaults(docs, web, kiwix, group, source, dq, wq, kq) ==
    PyDict(<< <<KUseDocs, PyBool(docs)>>, <<KUseWeb, PyBool(web)>>,
              <<KUseKiwix, PyBool(kiwix)>>, <<KDocGroup, group>>,
              <<KDocSource, source>>, <<KDocQuery, dq>>, <<KWebQuery, wq>>,
              <<KKiwixQuery, kq>> >>)

\* The string fields of the defaults explored: all null, all set, queries
\* only, and queries with an empty-string group.
DefaultStrings ==
    {<<PyNone, PyNone, PyNone, PyNone, PyNone>>,
     <<PyStr(<<"g">>), PyStr(<<"s">>), PyStr(<<"q">>), PyStr(<<"q">>), PyStr(<<"q">>)>>,
     <<PyNone, PyNone, PyStr(<<"q">>), PyStr(<<"q">>), PyStr(<<"q">>)>>,
     <<PyStr(<<>>), PyNone, PyStr(<<"q">>), PyStr(<<"q">>), PyStr(<<"q">>)>>}

DefaultsSet ==
    {RouteDefaults(d, w, k, ss[1], ss[2], ss[3], ss[4], ss[5]) :
        d \in BOOLEAN, w \in BOOLEAN, k \in BOOLEAN, ss \in DefaultStrings}

\* The max_size route_rag passes (config.max_json_parse_size), small enough
\* for the longest contents to exceed it.
RouteCap == 44

\* Lines 65-98: up to the await of the POST.
RouteStart ==
    /\ route = "start"
    /\ IF Strip(query) = <<>>
       THEN /\ route' = "done"
            /\ decision' = defaults
       ELSE /\ route' = "awaiting"
            /\ UNCHANGED decision
    /\ UNCHANGED <<query, defaults, reply, max_size>>
    /\ UNCHANGED <<varsScan, varsRerank, varsRetrieve, varsRest>>

\* Lines 98-122: the POST comes back and the coroutine runs to its return.
RouteResume ==
    /\ route = "awaiting"
    /\ \E r \in RouteReplies :
          /\ reply' = r
          /\ decision' = RouteFinish(defaults, r, max_size)
    /\ route' = "done"
    /\ UNCHANGED <<query, defaults, max_size>>
    /\ UNCHANGED <<varsScan, varsRerank, varsRetrieve, varsRest>>

InitRoute ==
    /\ query \in {<<>>, <<" ">>, <<"q">>}
    /\ defaults \in DefaultsSet
    /\ max_size = RouteCap
    /\ reply = Pending
    /\ route = "start"
    /\ decision = Pending
    /\ ScanIdle
    /\ RerankIdle
    /\ RetrieveIdle
    /\ RestIdle

NextRoute == RouteStart \/ RouteResume

SpecRoute == InitRoute /\ [][NextRoute]_vars

\* The stepwise scan and the single-call form return the same value.
JsonStepwiseAgrees ==
    scan.pc = "done" => ret = JsonObjFromText(text, max_size)

\* ------------------------------------------------------------------------
\* Reading of a text, stated apart from the scanner: which characters are
\* escaped, which lie inside a double-quoted string, which braces count.
\* ------------------------------------------------------------------------

\* The number of consecutive backslashes that end right before index k,
\* looking no further back than index i.
BackslashRun(txt, i, k) ==
    CHOOSE n \in 0..(k - i) :
        /\ \A m \in 1..n : txt[k - m] = "\\"
        /\ n = k - i \/ txt[k - n - 1] # "\\"

\* Index k is consumed by a pending escape.
Escaped(txt, i, k) == BackslashRun(txt, i, k) % 2 = 1

\* Index k holds a double quote that opens or closes a string.
QuoteAt(txt, i, k) == txt[k] = "\"" /\ ~Escaped(txt, i, k)

\* Index k lies inside a double-quoted string of the span that starts at i.
InsideString(txt, i, k) ==
    Cardinality({q \in i..(k - 1) : QuoteAt(txt, i, q)}) % 2 = 1

\* Index k holds brace b outside every string.
BraceAt(txt, i, k, b) ==
    txt[k] = b /\ ~Escaped(txt, i, k) /\ ~InsideString(txt, i, k)

\* Opening minus closing braces outside strings among the indices i..k.
Balance(txt, i, k) ==
    Cardinality({q \in i..k : BraceAt(txt, i, q, "{")})
        - Cardinality({q \in i..k : BraceAt(txt, i, q, "}")})

\* The span a scan from i captures: it ends at the first index where the
\* balance returns to zero; <<>> when there is none.
BalancedSpan(txt, i) ==
    IF \E k \in i..Len(txt) : Balance(txt, i, k) = 0
    THEN SubSeq(txt, i, CHOOSE k \in i..Len(txt) :
                            Balance(txt, i, k) = 0
                            /\ \A m \in i..(k - 1) : Balance(txt, i, m) # 0)
    ELSE <<>>

\* {"a": 1, "b": "x}y"}
ObjNoise ==
    PyDict(<< <<<<"a">>, PyInt(1)>>, <<<<"b">>, PyStr(<<"x", "}", "y">>)>> >>)

\* {"a": "q\"}"}
ObjEscapedQuote == PyDict(<< <<<<"a">>, PyStr(<<"q", "\"", "}">>)>> >>)

\* {"a": 1}
ObjA1 == PyDict(<< <<<<"a">>, PyInt(1)>> >>)

\* ------------------------------------------------------------------------
\* Claims
\* ------------------------------------------------------------------------

\* C9: while _json_obj_from_text scans a span, depth equals the number of
\* '{' minus the number of '}' met so far outside double-quoted strings, and
\* in_string tells whether the next character lies inside a string, whatever
\* braces and backslash-escaped quotes the strings hold; a captured span ends
\* at the first '}' outside any string that returns the depth to zero; the
\* text 'noise {"a": 1, "b": "x}y"} trailing', when not longer than max_size,
\* yields {"a": 1, "b": "x}y"}.
C9_DepthOnlyOutsideStrings ==
    /\ scan.pc = "inner" =>
          /\ scan.depth = Balance(text, scan.i, scan.j - 1)
          /\ ~scan.escape_next => scan.in_string = InsideString(text, scan.i, scan.j)
    /\ scan.pc = "done" /\ scan.snippet # <<>> =>
          /\ scan.snippet = BalancedSpan(text, scan.i)
          /\ BraceAt(text, scan.i, scan.j, "}")
    /\ scan.pc = "done" /\ text = TextNoiseObject /\ ~Rejected(text, max_size) =>
          ret = ObjNoise
    /\ scan.pc = "done" /\ text = TextEscapedQuote /\ ~Rejected(text, max_size) =>
          ret = ObjEscapedQuote

\* C9 witness: the scan of the example has returned the object whose string
\* value holds a closing brace.
C9_Witness ==
    /\ scan.pc = "done"
    /\ text = TextNoiseObject
    /\ ret = ObjNoise
    /\ \E k \in scan.i..scan.j : text[k] = "}" /\ InsideString(text, scan.i, k)

\* The first '[' of txt comes before any '{' and opens a balanced array.
ArrayComesFirst(txt) ==
    /\ Find(txt, "[") # 0
    /\ Find(txt, "{") = 0 \/ Find(txt, "[") < Find(txt, "{")
    /\ \E e \in 1..Len(txt) : JsonLoads(SubSeq(txt, Find(txt, "["), e)).ok

\* The parsed value of that array.
FirstArrayValue(txt) ==
    JsonLoads(SubSeq(txt, Find(txt, "["),
                     CHOOSE e \in 1..Len(txt) :
                        JsonLoads(SubSeq(txt, Find(txt, "["), e)).ok)).val

SchemaKeys ==
    {KUseDocs, KUseWeb, KUseKiwix, KDocGroup, KDocSource, KDocQuery,
     KWebQuery, KKiwixQuery}

HasKey(d, key) == \E n \in 1..Len(d.kv) : d.kv[n][1] = key

Keys(d) == {d.kv[n][1] : n \in 1..Len(d.kv)}

\* The LLM could not be reached or did not answer in time.
Unreachable(r) == r.kind \in {"connect_error", "timeout"}

\* The LLM answered with a status outside 2xx.
Non2xx(r) == r.kind = "response" /\ (r.status < 200 \/ r.status > 299)

\* The response exposes message.content as a string.
HasContent(r) ==
    /\ r.kind = "response"
    /\ r.body.t = "dict"
    /\ DictGet(r.body, KMessage).t = "dict"
    /\ DictGet(DictGet(r.body, KMessage), KContent).t = "str"

ContentOf(r) == DictGet(DictGet(r.body, KMessage), KContent).s

\* Some part of txt is a JSON object.
HoldsJsonObject(txt) ==
    \E i \in 1..Len(txt) : \E j \in (i + 1)..Len(txt) :
        txt[i] = "{" /\ txt[j] = "}" /\ JsonLoads(SubSeq(txt, i, j)).ok

\* The failures of the LLM call that C5 lists.
SoftFailure(r) ==
    \/ Unreachable(r)
    \/ Non2xx(r)
    \/ ~HasContent(r)
    \/ ~HoldsJsonObject(ContentOf(r))

\* route_rag has returned after hearing from the LLM.
Routed == route = "done" /\ reply # Pending

\* The object route_rag extracted from the reply (None when there is none).
RoutedObj ==
    IF HasContent(reply) /\ ~Non2xx(reply)
    THEN JsonObjFromText(Strip(ContentOf(reply)), max_size)
    ELSE PyNone

\* C5: whenever the LLM is unreachable, times out, answers with a non-2xx
\* status, answers without message.content or answers with content that holds
\* no JSON object, route_rag returns (it does not raise) a decision equal to
\* defaults, key for key and value for value.
C5_FailureReturnsDefaults ==
    Routed /\ SoftFailure(reply) => decision = defaults

\* C5 witness: the LLM answered '{"a": }', which holds no JSON object, and the
\* decision returned is the defaults with every string field set.
C5_Witness ==
    /\ Routed
    /\ HasContent(reply)
    /\ ContentOf(reply) = TextMalformed
    /\ SoftFailure(reply)
    /\ DictGet(defaults, KDocGroup) = PyStr(<<"g">>)
    /\ decision = defaults

\* C6 as stated: every field absent from the LLM's JSON object, boolean or
\* string, keeps the value it has in defaults.
C6_AbsentFieldsKeepDefault ==
    Routed =>
        LET obj == RoutedObj IN
        obj.t = "dict" =>
            \A key \in SchemaKeys :
                ~HasKey(obj, key) => DictGet(decision, key) = DictGet(defaults, key)

\* C7: a wrong-typed value never overrides a default and never rejects the
\* other fields: a use_* key is overridden by a JSON boolean and by nothing
\* else ("true", 1, 0 leave the default), a string key given a number, a
\* boolean, a list or an object keeps its default, a string key given a string
\* takes it stripped (null when blank), and the decision has the keys of
\* defaults and no other.
C7_WrongTypedIgnored ==
    Routed =>
        LET obj == RoutedObj IN
        obj.t = "dict" =>
            /\ Keys(decision) = Keys(defaults)
            /\ \A key \in {KUseDocs, KUseWeb, KUseKiwix} :
                  DictGet(decision, key) =
                      IF DictGet(obj, key).t = "bool" THEN DictGet(obj, key)
                      ELSE DictGet(defaults, key)
            /\ \A key \in {KDocGroup, KDocSource, KDocQuery, KWebQuery, KKiwixQuery} :
                  /\ DictGet(obj, key).t \notin {"str", "none"} =>
                        DictGet(decision, key) = DictGet(defaults, key)
                  /\ DictGet(obj, key).t = "str" =>
                        DictGet(decision, key) = Nullable(Strip(DictGet(obj, key).s))

\* C7 witness: the LLM answered {"use_docs": "true", "use_web": false} to
\* defaults with use_docs false and use_web true; use_docs stayed false and
\* use_web became false.
C7_Witness ==
    /\ Routed
    /\ HasContent(reply)
    /\ ContentOf(reply) = Obj2(Field(KUseDocs, TokStrTrue), Field(KUseWeb, TokFalse))
    /\ RoutedObj.t = "dict"
    /\ DictGet(defaults, KUseDocs) = PyBool(FALSE)
    /\ DictGet(defaults, KUseWeb) = PyBool(TRUE)
    /\ DictGet(decision, KUseDocs) = PyBool(FALSE)
    /\ DictGet(decision, KUseWeb) = PyBool(FALSE)

\* A complete RouteDecision: the eight keys and no other, use_* boolean.
CompleteRecord(d) ==
    /\ d.t = "dict"
    /\ Len(d.kv) = 8
    /\ Keys(d) = SchemaKeys
    /\ \A key \in {KUseDocs, KUseWeb, KUseKiwix} : DictGet(d, key).t = "bool"
    /\ \A key \in SchemaKeys \ {KUseDocs, KUseWeb, KUseKiwix} :
          DictGet(d, key).t \in {"str", "none"}

\* C8 as stated: every value returned is a complete RouteDecision whose five
\* string fields are each a non-empty string or null.
C8_NonEmptyOrNull ==
    route = "done" =>
        /\ CompleteRecord(decision)
        /\ \A key \in SchemaKeys :
              DictGet(decision, key).t = "str" => DictGet(decision, key).s # <<>>

\* C8 amended: every value returned, on success and on every failure path, is
\* a complete RouteDecision (the eight keys, use_* boolean, the five others a
\* string or null); a string field is stripped and non-empty unless it is the
\* value of defaults left in place.
C8_CompleteDecision ==
    route = "done" =>
        /\ CompleteRecord(decision)
        /\ \A key \in SchemaKeys :
              DictGet(decision, key).t = "str" =>
                  \/ DictGet(decision, key) = DictGet(defaults, key)
                  \/ /\ DictGet(decision, key).s # <<>>
                     /\ Strip(DictGet(decision, key).s) = DictGet(decision, key).s

\* C8 witness: defaults whose group is the empty string came back unchanged
\* from a failed call.
C8_Witness ==
    /\ Routed
    /\ Unreachable(reply)
    /\ DictGet(defaults, KDocGroup) = PyStr(<<>>)
    /\ decision = defaults

\* ------------------------------------------------------------------------
\* rerank_results (rerank.py)
\* ------------------------------------------------------------------------

Max(a, b) == IF a >= b THEN a ELSE b

\* Keep without the lower clamp to 1.
KeepNoFloor(k, n) == Min(k, n)

\* Line 43: keep_n clamped for n results.
Keep(k, n) == Max(1, Min(k, n))

\* int() fails: ValueError or TypeError.
IntFail == [ok |-> FALSE, n |-> 0]

\* int(s) of a str: optional whitespace around an optional sign and digits.
IntOfStr(s) ==
    LET b == Strip(s)
        signed == At(b, 1) \in {"+", "-"}
        d == ParseDigits(b, IF signed THEN 2 ELSE 1,
                         [pos |-> IF signed THEN 2 ELSE 1, n |-> 0, ds |-> <<>>])
    IN  IF d.ds = <<>> \/ d.pos # Len(b) + 1 THEN IntFail
        ELSE [ok |-> TRUE, n |-> IF At(b, 1) = "-" THEN 0 - d.n ELSE d.n]

\* Line 97: int(x).
IntOf(x) ==
    CASE x.t = "int" -> [ok |-> TRUE, n |-> x.n]
      [] x.t = "bool" -> [ok |-> TRUE, n |-> IF x.b THEN 1 ELSE 0]
      [] x.t = "float" -> [ok |-> TRUE, n |-> x.n]
      [] x.t = "str" -> IntOfStr(x.s)
      [] OTHER -> IntFail

\* ById with ids counted from 0.
ByIdFromZero(i, keep) == IF i >= 0 /\ i <= keep - 1 THEN i + 1 ELSE 0

\* Lines 94 and 102: by_id.get(i), the index in results of candidate i, 0 for
\* None.
ById(i, keep) == IF i >= 1 /\ i <= keep THEN i ELSE 0

\* PickStep without the test of lines 100-101.
PickStepNoSeen(st, x, keep) ==
    LET i == IntOf(x) IN
    IF ~i.ok THEN st
    ELSE IF ById(i.n, keep) = 0 THEN st
    ELSE [picked |-> Append(st.picked, ById(i.n, keep)), seen |-> st.seen \cup {i.n}]

\* Lines 96-106: one iteration of the loop over order; st holds picked and
\* seen.
PickStep(st, x, keep) ==
    LET i == IntOf(x) IN
    IF ~i.ok THEN st
    ELSE IF i.n \in st.seen THEN st
    ELSE IF ById(i.n, keep) = 0 THEN st
    ELSE [picked |-> Append(st.picked, ById(i.n, keep)), seen |-> st.seen \cup {i.n}]

RECURSIVE PickLoop(_, _, _, _)
\* Lines 95-106: the loop over order from element n on.
PickLoop(st, order, n, keep) ==
    IF n > Len(order) THEN st
    ELSE PickLoop(PickStep(st, order[n], keep), order, n + 1, keep)

RECURSIVE Unseen(_, _, _)
\* Lines 111-113: the candidates from i on whose id is not in seen, in order.
Unseen(i, keep, seen) ==
    IF i > keep THEN <<>>
    ELSE (IF i \in seen THEN <<>> ELSE <<i>>) \o Unseen(i + 1, keep, seen)

\* The indices a..b in order.
Range(a, b) == [n \in 1..(b - a + 1) |-> a + n - 1]

\* Line 86, 90, 109: return results.
Unchanged(res) == Range(1, Len(res))

\* Lines 88-115: the list returned for the content of the reply.
RerankOrder(res, keep, content) ==
    LET order == ExtractJsonArray(content) IN
    IF Falsy(order) THEN Unchanged(res)
    ELSE LET st == PickLoop([picked |-> <<>>, seen |-> {}], order.a, 1, keep) IN
         IF st.picked = <<>> THEN Unchanged(res)
         ELSE st.picked \o Unseen(1, keep, st.seen) \o Range(keep + 1, Len(res))

\* RerankFinish returning an empty list when the call fails.
RerankFinishEmpty(res, keep, r) ==
    LET c == LlmContent(r) IN
    IF c.exc THEN <<>> ELSE RerankOrder(res, keep, c.content)

\* Lines 81-115: what rerank_results returns once the POST has come back
\* with r.
RerankFinish(res, keep, r) ==
    LET c == LlmContent(r) IN
    IF c.exc THEN Unchanged(res) ELSE RerankOrder(res, keep, c.content)

\* Lines 41-82: up to the await of the POST.
RerankStart ==
    /\ rerank = "start"
    /\ IF results = <<>>
       THEN /\ rerank' = "done"
            /\ ranked' = <<>>
            /\ UNCHANGED candidates
       ELSE /\ rerank' = "awaiting"
            /\ candidates' = Range(1, Keep(keep_n, Len(results)))
            /\ UNCHANGED ranked
    /\ UNCHANGED <<results, keep_n, reply, max_size>>
    /\ UNCHANGED <<varsScan, varsRoute, varsRetrieve, varsRest>>

\* ------------------------------------------------------------------------
\* Inputs of rerank_results
\* ------------------------------------------------------------------------

\* Most results in a list.
MaxResults == 3

Items == {"a", "b"}

ResultLists == UNION {[1..n -> Items] : n \in 0..MaxResults}

\* The elements the LLM writes in its array.
ElemTokens ==
    {<<"1">>, <<"2">>, <<"3">>, <<"4">>, <<"0">>, <<"-", "1">>,
     <<"\"", "2", "\"">>, <<"2", ".", "9">>, TokTrue, TokNull,
     <<"\"", "x", "\"">>, TokList}

IdTokens == {<<"1">>, <<"2">>, <<"3">>, <<"4">>}

Arr1(x) == <<"[">> \o x \o <<"]">>

Arr2(x, y) == <<"[">> \o x \o <<",", " ">> \o y \o <<"]">>

Arr3(x, y, z) == <<"[">> \o x \o <<",", " ">> \o y \o <<",">> \o z \o <<"]">>

\* The contents the LLM answers with.
RerankTexts ==
    {Arr1(x) : x \in ElemTokens}
        \cup {Arr2(x, y) : x \in ElemTokens, y \in ElemTokens}
        \cup {Arr3(x, y, z) : x \in IdTokens, y \in IdTokens, z \in IdTokens}
        \cup {<<>>, <<"n", "o">>, <<"[", "]">>, <<"3", ",", "1">>, TextMalformed,
              <<"[", "3", ",", "1">>,
              <<"S", "u", "r", "e", ":", " ">> \o Arr2(<<"3">>, <<"1">>) \o <<" ", "o", "k">>,
              Arr2(<<"2">>, <<"1">>) \o <<" ", "]">>,
              Arr2(<<"2">>, <<"1">>) \o <<" ">> \o Arr1(<<"1">>),
              <<"{", "\"", "i", "d", "s", "\"", ":", " ">> \o Arr2(<<"2">>, <<"1">>) \o <<"}">>}

RerankBodies ==
    {ChatBody(txt) : txt \in RerankTexts}
        \cup {[t |-> "invalid"], PyList(<<>>), PyDict(<<>>),
              PyDict(<< <<KMessage, PyNone>> >>),
              PyDict(<< <<KMessage, PyStr(<<"h", "i">>)>> >>),
              PyDict(<< <<KMessage, PyDict(<<>>)>> >>),
              PyDict(<< <<KMessage, PyDict(<< <<KContent, PyNone>> >>)>> >>),
              PyDict(<< <<KMessage, PyDict(<< <<KContent, PyInt(5)>> >>)>> >>)}

RerankReplies ==
    {[kind |-> "connect_error"], [kind |-> "timeout"]}
        \cup {[kind |-> "response", status |-> 200, body |-> b] : b \in RerankBodies}
        \cup {[kind |-> "response", status |-> st, body |-> b] :
                st \in {404, 500},
                b \in {PyDict(<<>>), ChatBody(Arr2(<<"2">>, <<"1">>))}}

\* Lines 82-115: the POST comes back and the coroutine runs to its return.
RerankResume ==
    /\ rerank = "awaiting"
    /\ \E r \in RerankReplies :
          /\ reply' = r
          /\ ranked' = RerankFinish(results, Len(candidates), r)
    /\ rerank' = "done"
    /\ UNCHANGED <<results, keep_n, candidates, max_size>>
    /\ UNCHANGED <<varsScan, varsRoute, varsRetrieve, varsRest>>

InitRerank ==
    /\ results \in ResultLists
    /\ keep_n \in (0 - 1)..(MaxResults + 1)
    /\ candidates = <<>>
    /\ rerank = "start"
    /\ ranked = <<>>
    /\ reply = Pending
    /\ max_size = LargeCap
    /\ ScanIdle
    /\ RouteIdle
    /\ RetrieveIdle
    /\ RestIdle

NextRerank == RerankStart \/ RerankResume

SpecRerank == InitRerank /\ [][NextRerank]_vars

\* The items of the list returned.
RankedItems == [n \in 1..Len(ranked) |-> results[ranked[n]]]

\* ------------------------------------------------------------------------
\* Reading of an LLM ordering, stated apart from rerank_results
\* ------------------------------------------------------------------------

\* rerank_results has returned after hearing from the LLM.
Reranked == rerank = "done" /\ reply # Pending

\* The number of candidates as C4 words it.
NCandidates == Min(Max(keep_n, 1), Len(results))

\* The number of times x occurs in seq.
Count(seq, x) == Cardinality({n \in 1..Len(seq) : seq[n] = x})

\* seq holds each of 1..n exactly once.
IsPermutation(seq, n) ==
    /\ Len(seq) = n
    /\ \A i \in 1..n : Count(seq, i) = 1

\* The position of result i in the list returned.
Pos(i) == CHOOSE p \in 1..Len(ranked) : ranked[p] = i

\* The array the LLM returned (None when it returned none).
LlmOrder ==
    IF HasContent(reply) /\ ~Non2xx(reply)
    THEN ExtractJsonArray(ContentOf(reply))
    ELSE PyNone

\* Element p of the order names candidate i.
Names(order, p, i) == IntOf(order.a[p]).ok /\ IntOf(order.a[p]).n = i

\* Candidate i is mentioned in the order.
Mentioned(order, i) == \E p \in 1..Len(order.a) : Names(order, p, i)

\* The first place of the order that names candidate i.
FirstPlace(order, i) ==
    CHOOSE p \in 1..Len(order.a) :
        Names(order, p, i) /\ \A q \in 1..(p - 1) : ~Names(order, q, i)

\* The order names at least one of the candidates 1..n.
HasValidId(order, n) ==
    order.t = "list" /\ \E i \in 1..n : Mentioned(order, i)

\* Some part of txt is a JSON array.
HoldsJsonArray(txt) ==
    \E i \in 1..Len(txt) : \E j \in (i + 1)..Len(txt) :
        txt[i] = "[" /\ txt[j] = "]" /\ JsonLoads(SubSeq(txt, i, j)).ok

\* C1: for every non-empty results, every keep_n and every LLM outcome the
\* list returned is a permutation of results: same length, and every item
\* occurs in it as many times as in results.
C1_Permutation ==
    rerank = "done" /\ results # <<>> =>
        /\ Len(ranked) = Len(results)
        /\ \A n \in 1..Len(ranked) : ranked[n] \in 1..Len(results)
        /\ IsPermutation(ranked, Len(results))
        /\ \A x \in Items : Count(RankedItems, x) = Count(results, x)

\* C1 witness: three results of which two are equal came back reordered.
C1_Witness ==
    /\ Reranked
    /\ results = <<"a", "b", "a">>
    /\ ranked = <<2, 1, 3>>
    /\ RankedItems = <<"b", "a", "a">>

\* C2: when the LLM returns an array that names at least one candidate, the
\* candidates named come first, in the order of their first mention (repeats
\* and ids outside 1..n ignored), and the candidates never named follow in
\* their original order; candidates [1,2,3] with LLM order [3, 1] give
\* [3,1,2].
C2_FirstMentionOrder ==
    Reranked =>
        LET order == LlmOrder
            n == NCandidates
        IN  HasValidId(order, n) =>
            /\ IsPermutation(ranked, Len(results))
            /\ \A i \in 1..n : \A j \in (1..n) \ {i} :
                  Pos(i) < Pos(j) <=>
                      \/ /\ Mentioned(order, i)
                         /\ Mentioned(order, j)
                         /\ FirstPlace(order, i) < FirstPlace(order, j)
                      \/ Mentioned(order, i) /\ ~Mentioned(order, j)
                      \/ ~Mentioned(order, i) /\ ~Mentioned(order, j) /\ i < j
            /\ (Len(results) = 3 /\ keep_n >= 3
                    /\ ContentOf(reply) = Arr2(<<"3">>, <<"1">>)) =>
                  ranked = <<3, 1, 2>>

\* C2 witness: candidates [1,2,3] and LLM order [3, 3,1]: the repeat of 3 is
\* ignored and 2, never named, comes last.
C2_Witness ==
    /\ Reranked
    /\ Len(results) = 3
    /\ keep_n = 3
    /\ HasContent(reply)
    /\ ContentOf(reply) = Arr3(<<"3">>, <<"3">>, <<"1">>)
    /\ HasValidId(LlmOrder, NCandidates)
    /\ ranked = <<3, 1, 2>>

\* The outcomes for which C3 promises the input back.
RerankFallback(r) ==
    \/ Unreachable(r)
    \/ Non2xx(r)
    \/ ~HasContent(r)
    \/ ~HoldsJsonArray(ContentOf(r))
    \/ ~HasValidId(ExtractJsonArray(ContentOf(r)), NCandidates)

\* C3: whenever the LLM call fails (transport error, timeout, non-2xx status,
\* no message.content), the content holds no JSON array or the array names no
\* candidate, rerank_results returns (it does not raise) the input list in
\* its original order.
C3_FallbackUnchanged ==
    Reranked /\ RerankFallback(reply) => ranked = Range(1, Len(results))

\* C3 witness: three candidates and the LLM answered [4, 0], which names
\* none of them.
C3_Witness ==
    /\ Reranked
    /\ Len(results) = 3
    /\ HasContent(reply)
    /\ ContentOf(reply) = Arr2(<<"4">>, <<"0">>)
    /\ RerankFallback(reply)
    /\ ranked = <<1, 2, 3>>

\* C4: the LLM is offered exactly the first n = min(max(keep_n, 1),
\* len(results)) results, numbered 1..n; in the list returned the results at
\* positions n+1.. stay at their positions, after all n candidates, whatever
\* the LLM answered.
C4_TailUntouched ==
    rerank \in {"awaiting", "done"} /\ results # <<>> =>
        /\ candidates = Range(1, NCandidates)
        /\ rerank = "done" =>
              /\ Len(ranked) = Len(results)
              /\ \A p \in 1..NCandidates : ranked[p] \in 1..NCandidates
              /\ \A p \in (NCandidates + 1)..Len(results) : ranked[p] = p

\* C4 witness: three results, keep_n = 2 and LLM order [3, 2]: id 3 is no
\* candidate, 2 moves first and the third result stays last.
C4_Witness ==
    /\ Reranked
    /\ Len(results) = 3
    /\ keep_n = 2
    /\ HasContent(reply)
    /\ ContentOf(reply) = Arr2(<<"3">>, <<"2">>)
    /\ candidates = <<1, 2>>
    /\ ranked = <<2, 1, 3>>

\* ------------------------------------------------------------------------
\* Claims on the first candidate span and on the size cap
\* ------------------------------------------------------------------------

\* The balanced span at the first '{' of txt is missing or is not JSON.
FirstSpanFails(txt) ==
    /\ Find(txt, "{") # 0
    /\ \/ BalancedSpan(txt, Find(txt, "{")) = <<>>
       \/ ~JsonLoads(BalancedSpan(txt, Find(txt, "{"))).ok

\* Some span of txt that starts after its first '{' is a JSON object.
LaterSpanParses(txt) ==
    \E i \in (Find(txt, "{") + 1)..Len(txt) : \E j \in i..Len(txt) :
        txt[i] = "{" /\ JsonLoads(SubSeq(txt, i, j)).ok

\* C11: _json_obj_from_text examines only the first candidate span: when the
\* span that starts at the first '{' does not parse as JSON or never returns
\* to depth zero, the call returns nothing, also when a later span of the
\* text is valid JSON, and the scan never moves to a second span; '{"a": }'
\* and '{"a": } {"b":1}' both give nothing.
C11_FirstSpanOnly ==
    /\ scan.pc = "inner" => scan.i = Find(text, "{")
    /\ scan.pc = "outer" => \A m \in 1..(scan.i - 1) : text[m] # "{"
    /\ scan.pc = "done" /\ ~Rejected(text, max_size) /\ FirstSpanFails(text) =>
          ret = PyNone
    /\ scan.pc = "done" /\ text \in {TextMalformed, TextMalformedThenObject} =>
          ret = PyNone

\* C11 witness: the first span of '{"a": } {"b":1}' failed to parse, the
\* later span {"b":1} is valid JSON and nothing was returned.
C11_Witness ==
    /\ scan.pc = "done"
    /\ text = TextMalformedThenObject
    /\ ~Rejected(text, max_size)
    /\ scan.snippet = TextMalformed
    /\ FirstSpanFails(text)
    /\ LaterSpanParses(text)
    /\ ret = PyNone

\* A 2xx chat response whose message.content is txt.
ChatReply(txt) == [kind |-> "response", status |-> 200, body |-> ChatBody(txt)]

\* C12: for a text longer than max_size _json_obj_from_text returns nothing
\* without scanning a character, whatever the text holds; a text of length
\* exactly max_size is scanned as any shorter one; route_rag returns the
\* defaults for an LLM reply whose content is longer than max_size.
C12_SizeCap ==
    /\ scan.pc \in {"outer", "inner"} => Len(text) <= max_size
    /\ scan.pc = "done" /\ Len(text) > max_size =>
          ret = PyNone /\ scan.i = 0 /\ scan.j = 0
    /\ scan.pc = "done" /\ text # <<>> /\ Len(text) = max_size =>
          /\ scan.i # 0
          /\ ret = IF Find(text, "{") = 0 THEN PyNone
                   ELSE LoadsOrNone(BalancedSpan(text, Find(text, "{")))
    /\ Len(Strip(text)) > max_size =>
          \A d \in DefaultsSet : RouteFinish(d, ChatReply(text), max_size) = d

\* C12 witness: a text that holds a JSON object and is longer than max_size
\* was turned away at the entry.
C12_Witness ==
    /\ scan.pc = "done"
    /\ Len(text) > max_size
    /\ JsonObjFromText(text, LargeCap).t = "dict"
    /\ scan.i = 0
    /\ ret = PyNone

\* C13: the scan of a span starts at a '{' that is not inside a
\* double-quoted string of the text; for 'he wrote "{x" then {"a":1}' the
\* quoted brace is passed over and {"a":1} is returned.
C13_StartOutsideString ==
    /\ scan.pc = "inner" => ~InsideString(text, 1, scan.i)
    /\ scan.pc = "done" /\ text = TextQuotedBrace /\ ~Rejected(text, max_size) =>
          ret = ObjA1

\* ------------------------------------------------------------------------
\* retrieval.py: values and helpers
\* ------------------------------------------------------------------------

KTitle == <<"t", "i", "t", "l", "e">>

KPath == <<"p", "a", "t", "h">>

KUrl == <<"u", "r", "l">>

KText == <<"t", "e", "x", "t">>

KPersist == <<"p", "e", "r", "s", "i", "s", "t">>

KPages == <<"p", "a", "g", "e", "s">>

\* Python `x or y`.
Or(x, y) == IF Falsy(x) THEN y ELSE x

\* The characters of a str value, <<>> for any other value.
Chars(v) == IF v.t = "str" THEN v.s ELSE <<>>

RECURSIVE IntToStr(_)
\* str(n) for an int n.
IntToStr(n) ==
    IF n < 0 THEN <<"-">> \o IntToStr(0 - n)
    ELSE IF n < 10
    THEN <<(<<"0", "1", "2", "3", "4", "5", "6", "7", "8", "9">>)[n + 1]>>
    ELSE IntToStr(n \div 10) \o IntToStr(n % 10)

RECURSIVE RStripSlash(_)
\* Line 115: rstrip("/").
RStripSlash(txt) ==
    IF txt # <<>> /\ txt[Len(txt)] = "/"
    THEN RStripSlash(SubSeq(txt, 1, Len(txt) - 1))
    ELSE txt

\* Line 115: the _base_url the constructor keeps for its argument.
BaseUrl(arg) == RStripSlash(Chars(Or(arg, PyStr(<<>>))))

RECURSIVE RemoveFrom(_, _, _)
\* str.replace(pat, ""), from index p on.
RemoveFrom(txt, pat, p) ==
    IF p > Len(txt) THEN <<>>
    ELSE IF IsWord(txt, p, pat) THEN RemoveFrom(txt, pat, p + Len(pat))
    ELSE <<txt[p]>> \o RemoveFrom(txt, pat, p + 1)

\* Line 133.
DomainOf(base) ==
    RemoveFrom(RemoveFrom(base, <<"h", "t", "t", "p", ":", "/", "/">>, 1),
               <<"h", "t", "t", "p", "s", ":", "/", "/">>, 1)

\* Persist with the option on when it is absent.
PersistDefaultTrue(kwargs) == DictGet(kwargs, KPersist) # PyBool(FALSE)

\* Lines 128: bool(kwargs.get("persist", False)).
Persist(kwargs) == ~Falsy(DictGet(kwargs, KPersist))

DefaultPages == 4

MinPages == 1

MaxPages == 10

\* Line 129: int(kwargs.get("pages") or 4), as IntOf gives it.
PagesArg(kwargs) == IntOf(Or(DictGet(kwargs, KPages), PyInt(DefaultPages)))

\* Lines 129-130: the value of pages after the clamp.
NPages(kwargs) == Max(MinPages, Min(PagesArg(kwargs).n, MaxPages))

\* Python seq[:k].
SliceTo(seq, k) ==
    IF k >= 0 THEN SubSeq(seq, 1, Min(k, Len(seq)))
    ELSE SubSeq(seq, 1, Max(Len(seq) + k, 0))

\* Line 162: int(hashlib.sha256(url.encode()).hexdigest()[:12], 16), written
\* as its decimal numeral (the values are 48 bits wide); the table holds the
\* digests of the strings that occur as URL or path.
Sha12(txt) ==
    CASE txt = <<>> -> <<"2", "5", "0", "3", "4", "8", "3", "4", "6", "4", "4", "8", "1", "2", "4">>
      [] txt = <<"u", "1">> -> <<"2", "0", "6", "1", "6", "7", "0", "7", "1", "3", "7", "4", "3", "7", "9">>
      [] txt = <<"u", "2">> -> <<"1", "1", "9", "4", "4", "3", "0", "8", "7", "1", "9", "9", "8", "2", "8">>
      [] txt = <<"p", "1">> -> <<"2", "7", "0", "7", "7", "7", "5", "8", "8", "7", "0", "0", "9", "1", "2">>
      [] txt = <<"p", "2">> -> <<"6", "2", "9", "7", "6", "2", "0", "6", "1", "1", "0", "5", "8", "4">>
      [] txt = <<"p", "3">> -> <<"7", "4", "4", "7", "0", "4", "5", "1", "6", "2", "9", "6", "8", "7">>

KiwixPrefix == <<"k", "i", "w", "i", "x", ":">>

DocPrefix == <<"d", "o", "c", ":">>

WebPrefix == <<"w", "e", "b", ":">>

\* ------------------------------------------------------------------------
\* The collaborators of retrieval.py: the embedding service and the store
\* ------------------------------------------------------------------------

\* embed_texts on one text: the vector of the embedding model for txt. The
\* model is a fixed function of the text; the table gives the query "q" and
\* the page texts vectors that lie along, across and against the query.
Embed(txt) ==
    CASE txt = <<"q">> -> <<1, 0>>
      [] txt = <<"a">> -> <<1, 0>>
      [] txt = <<"b">> -> <<-1, 1>>
      [] txt = <<"c">> -> <<1, 1>>
      [] txt = <<>> -> <<0, 0>>
      [] OTHER -> <<0, 1>>

\* embed_texts: one vector per text, in the same order.
EmbedTexts(texts) == [n \in 1..Len(texts) |-> Embed(texts[n])]

Dot(u, v) == u[1] * v[1] + u[2] * v[2]

\* cosine(u, v) = (u.v)/(|u||v|), 0 when either vector is zero. The value is
\* kept as sign(cos) * cos^2 * 4, an integer for the vectors of Embed that
\* has the sign and the order of the cosine.
Cosine(u, v) ==
    LET d == Dot(u, v)
        n2 == Dot(u, u) * Dot(v, v)
    IN  IF n2 = 0 THEN 0
        ELSE IF d >= 0 THEN (d * d * 4) \div n2
        ELSE 0 - ((d * d * 4) \div n2)

RECURSIVE InsertDesc(_, _, _)
\* seq, sorted by falling score, with x put after every element whose score
\* is not below its own (n is the place tried).
InsertDesc(seq, x, n) ==
    IF n > Len(seq) THEN Append(seq, x)
    ELSE IF seq[n].score >= x.score THEN InsertDesc(seq, x, n + 1)
    ELSE SubSeq(seq, 1, n - 1) \o <<x>> \o SubSeq(seq, n, Len(seq))

RECURSIVE SortDesc(_, _, _)
\* Line 176: items.sort(key=score, reverse=True), a stable sort.
SortDesc(seq, n, acc) ==
    IF n > Len(seq) THEN acc
    ELSE SortDesc(seq, n + 1, InsertDesc(acc, seq[n], 1))

StoreMinK == 1

StoreMaxK == 200

\* ragstore.add_document: the store after the document is added; its id is
\* the next row id.
AddDocument(st, filename, txt, title, path, source, group_name) ==
    Append(st, [doc_id |-> Len(st) + 1, filename |-> filename, text |-> txt,
                title |-> title, path |-> path, source |-> source,
                group_name |-> group_name])

\* The hit the store returns for document d (one chunk per document, its
\* chunk_id the doc_id) against the query vector.
Hit(d, qvec) ==
    [chunk_id |-> PyInt(d.doc_id), doc_id |-> PyInt(d.doc_id),
     chunk_index |-> PyInt(0), title |-> d.title, filename |-> d.filename,
     path |-> d.path, url |-> PyNone, domain |-> PyNone,
     score |-> Cosine(qvec, Embed(d.text)), text |-> PyStr(d.text)]

\* The documents of st whose id is in ids; every document when ids is None.
Scoped(st, ids) ==
    SelectSeq(st, LAMBDA d : ids = PyNone \/ \E n \in 1..Len(ids.a) : ids.a[n] = PyInt(d.doc_id))

\* The documents of st in the group and from the source asked for; a filter
\* that is None leaves every document in.
InGroup(st, group_name, source) ==
    SelectSeq(st, LAMBDA d : /\ group_name = PyNone \/ d.group_name = group_name
                             /\ source = PyNone \/ d.source = source)

\* ragstore.retrieve / webstore.retrieve: no hits for a missing or blank
\* query or when the embedding service fails (embed_ok false); otherwise the
\* documents in scope by falling cosine, ties by lower chunk_id, at most
\* top_k of them with top_k clamped to [1, 200].
StoreRetrieve(st, qry, k, ids, embed_ok) ==
    LET qtxt == Strip(Chars(Or(qry, PyStr(<<>>)))) IN
    IF qtxt = <<>> \/ ~embed_ok THEN <<>>
    ELSE LET scoped == Scoped(st, ids)
             hits == [n \in 1..Len(scoped) |-> Hit(scoped[n], Embed(qtxt))]
         IN  SubSeq(SortDesc(hits, 1, <<>>), 1,
                    Min(Len(hits), Max(StoreMinK, Min(k, StoreMaxK))))

\* kiwix.fetch_page: the page {url, text} the server holds at path, None
\* when the fetch fails.
FetchPage(st, path) == IF path \in DOMAIN st THEN st[path] ELSE PyNone

\* ------------------------------------------------------------------------
\* retrieval.py: the providers
\* ------------------------------------------------------------------------

\* The call raised an exception.
Raised == [t |-> "raised"]

varsOther == <<varsScan, varsRoute, varsRerank, reply, max_size, varsRest>>

\* f"{v}" for an int or a str.
Format(v) == IF v.t = "int" THEN IntToStr(v.n) ELSE Chars(v)

\* int(h["chunk_id"]), written as its decimal numeral.
ChunkIdOf(h) == IntToStr(IntOf(h.chunk_id).n)

\* Lines 58-80: the result made from hit h of the document store.
DocResult(h) ==
    [source_type |-> "doc", ref_id |-> DocPrefix \o Format(h.chunk_id),
     chunk_id |-> ChunkIdOf(h), title |-> Or(h.title, h.filename),
     url |-> PyNone, domain |-> PyNone, score |-> h.score,
     text |-> Chars(Or(h.text, PyStr(<<>>))),
     meta |-> [doc_id |-> h.doc_id, chunk_index |-> h.chunk_index,
               filename |-> h.filename, title |-> h.title, path |-> h.path]]

\* Lines 92-107: the result made from hit h of the web store.
WebResult(h) ==
    [source_type |-> "web", ref_id |-> WebPrefix \o Format(h.chunk_id),
     chunk_id |-> ChunkIdOf(h), title |-> Or(h.title, h.domain),
     url |-> h.url, domain |-> h.domain, score |-> h.score,
     text |-> Chars(Or(h.text, PyStr(<<>>))),
     meta |-> [chunk_index |-> h.chunk_index]]

\* Lines 211-227: the result made from hit h in persistent mode.
KiwixHitResult(h, domain) ==
    [source_type |-> "kiwix", ref_id |-> KiwixPrefix \o Format(h.chunk_id),
     chunk_id |-> ChunkIdOf(h), title |-> Or(h.title, h.filename),
     url |-> h.path, domain |-> PyStr(domain), score |-> h.score,
     text |-> Chars(Or(h.text, PyStr(<<>>))),
     meta |-> [path |-> h.path, doc_id |-> h.doc_id,
               chunk_index |-> h.chunk_index]]

KDocIds == <<"d", "o", "c", "_", "i", "d", "s">>

KGroupName == <<"g", "r", "o", "u", "p", "_", "n", "a", "m", "e">>

KSource == <<"s", "o", "u", "r", "c", "e">>

\* DocFilters with a missing doc_ids passed on as an empty list.
DocFiltersEmptyIds(kwargs) ==
    [doc_ids |-> Or(DictGet(kwargs, KDocIds), PyList(<<>>)),
     group_name |-> DictGet(kwargs, KGroupName),
     source |-> DictGet(kwargs, KSource)]

\* Lines 36-46: the filters DocRetrievalProvider hands to ragstore.retrieve.
DocFilters(kwargs) ==
    [doc_ids |-> DictGet(kwargs, KDocIds),
     group_name |-> DictGet(kwargs, KGroupName),
     source |-> DictGet(kwargs, KSource)]

\* Lines 120: (query or "").strip().
QueryText(qry) == Strip(Chars(Or(qry, PyStr(<<>>))))

\* Lines 138 and 181: item.get("path") or item.get("url") or "".
ItemPath(item) ==
    Chars(Or(Or(DictGet(item, KPath), DictGet(item, KUrl)), PyStr(<<>>)))

\* Lines 142-148: the entry of pages_meta for a fetched page.
PageMeta(item, page, domain) ==
    [title |-> Or(DictGet(item, KTitle), DictGet(item, KPath)),
     path |-> DictGet(item, KPath), url |-> DictGet(page, KUrl),
     domain |-> PyStr(domain), text |-> Or(DictGet(page, KText), PyStr(<<>>))]

\* ChunkId taking the path of the page into the digest instead of its URL.
ChunkIdFromPath(meta) == Sha12(Chars(Or(meta.path, PyStr(<<>>))))

\* Lines 161-162: the chunk_id of a transient result.
ChunkId(meta) == Sha12(Chars(Or(meta.url, PyStr(<<>>))))

\* Lines 159-175: the result made from a fetched page and its embedding.
KiwixItem(meta, emb, qvec) ==
    [source_type |-> "kiwix", ref_id |-> KiwixPrefix \o ChunkId(meta),
     chunk_id |-> ChunkId(meta), title |-> meta.title, url |-> meta.url,
     domain |-> meta.domain, score |-> Cosine(qvec, emb),
     text |-> Chars(Or(meta.text, PyStr(<<>>))), meta |-> [path |-> meta.path]]

\* Lines 154-177: the list returned in transient mode.
TransientResults(pm, qvec, k) ==
    LET embeddings == EmbedTexts([n \in 1..Len(pm) |-> Chars(Or(pm[n].text, PyStr(<<>>)))])
        items == [n \in 1..Len(pm) |-> KiwixItem(pm[n], embeddings[n], qvec)]
    IN  SliceTo(SortDesc(items, 1, <<>>), k)

\* Lines 137 and 180: the index of the last item of results[:pages].
LastPage == Min(Len(found), NPages(call.kwargs))

\* Line 185: (page.get("text") or "").strip().
PageText(page) == Strip(Chars(Or(DictGet(page, KText), PyStr(<<>>))))

\* ------------------------------------------------------------------------
\* Inputs of the providers
\* ------------------------------------------------------------------------

P1 == <<"p", "1">>

P2 == <<"p", "2">>

P3 == <<"p", "3">>

U1 == <<"u", "1">>

U2 == <<"u", "2">>

\* Search results: with title and path, with a path only, with a url only.
ItemA == PyDict(<< <<KTitle, PyStr(<<"A">>)>>, <<KPath, PyStr(P1)>> >>)

ItemB == PyDict(<< <<KPath, PyStr(P2)>> >>)

ItemC == PyDict(<< <<KTitle, PyStr(<<"C">>)>>, <<KUrl, PyStr(P3)>> >>)

\* The number of search results of the longest list, above the cap on pages.
LongLen == 11

LongList == [n \in 1..LongLen |-> IF n % 3 = 1 THEN ItemA ELSE IF n % 3 = 2 THEN ItemB ELSE ItemC]

SearchResults ==
    {<<>>, <<ItemA>>, <<ItemA, ItemB>>, <<ItemB, ItemA, ItemC>>, LongList}

Page(url, txt) == PyDict(<< <<KUrl, url>>, <<KText, PyStr(txt)>> >>)

SiteOf(a, b, c) == [p \in {P1, P2, P3} |-> IF p = P1 THEN a ELSE IF p = P2 THEN b ELSE c]

\* Every page is served; the third has no url.
SiteUp == SiteOf(Page(PyStr(U1), <<"a">>), Page(PyStr(U2), <<"b">>), Page(PyNone, <<"c">>))

\* The first fetch fails, the second succeeds.
SiteOneFails == SiteOf(PyNone, Page(PyStr(U1), <<"a">>), PyNone)

\* Every fetch fails (the third with an empty page).
SiteDown == SiteOf(PyNone, PyNone, PyDict(<<>>))

\* The pages fetched have no text.
SiteEmptyText == SiteOf(Page(PyStr(U1), <<>>), Page(PyStr(U2), <<" ">>), PyNone)

\* Two paths lead to the same URL with different texts.
SiteSameUrl == SiteOf(Page(PyStr(U1), <<"a">>), Page(PyStr(U1), <<"b">>), Page(PyStr(U2), <<>>))

Sites == {SiteUp, SiteOneFails, SiteDown, SiteEmptyText, SiteSameUrl}

TopKs == {-1, 0, 1, 2, 3}

Kwargs ==
    {PyDict(<<>>), PyDict(<< <<KPersist, PyBool(TRUE)>> >>)}
        \cup {PyDict(<< <<KPages, PyInt(n)>> >>) : n \in {-1, 0, 1, 2, 11}}
        \cup {PyDict(<< <<KPersist, PyBool(TRUE)>>, <<KPages, PyInt(n)>> >>) :
                n \in {-1, 0, 1, 2, 11}}

Queries == {PyNone, PyStr(<<>>), PyStr(<<" ">>), PyStr(<<"q">>)}

BaseUrls ==
    {BaseUrl(PyNone), BaseUrl(PyStr(<<"h", "t", "t", "p", ":", "/", "/", "h", "/">>))}

\* A store that holds one document, of one chunk, along the query "q".
StoreOne ==
    AddDocument(<<>>, PyStr(<<"f", "1">>), <<"a">>, PyStr(<<"T">>), PyNone,
                PyStr(<<"e", "p", "u", "b">>), PyNone)

\* A store that holds two documents already.
StoreTwo ==
    AddDocument(StoreOne, PyStr(<<"f", "2">>), <<"b">>, PyNone, PyNone,
                PyNone, PyStr(<<"g">>))

Stores == {<<>>, StoreOne, StoreTwo}

\* The options of a DocRetrievalProvider call: no filter, or one of doc_ids,
\* group_name and source.
DocKwargs ==
    {PyDict(<<>>),
     PyDict(<< <<KDocIds, PyList(<<PyInt(2)>>)>> >>),
     PyDict(<< <<KGroupName, PyStr(<<"g">>)>> >>),
     PyDict(<< <<KSource, PyStr(<<"e", "p", "u", "b">>)>> >>)}

\* ------------------------------------------------------------------------
\* retrieval.py: the retrieve coroutines, one action per await
\* ------------------------------------------------------------------------

\* Lines 35-81: DocRetrievalProvider.retrieve.
DocRetrieve ==
    /\ provider = "doc"
    /\ kpc = "start"
    /\ \E embed_ok \in BOOLEAN :
          LET f == DocFilters(call.kwargs)
              hits == StoreRetrieve(InGroup(store, f.group_name, f.source), call.query,
                                    call.top_k, f.doc_ids, embed_ok)
          IN  /\ returned' = PyList([n \in 1..Len(hits) |-> DocResult(hits[n])])
              /\ trace' = Append(trace, [op |-> "retrieve", ok |-> embed_ok,
                                         filters |-> f])
    /\ kpc' = "done"
    /\ UNCHANGED <<provider, call, site, store, found, idx, pages_meta,
                   query_emb, ingested_doc_ids>>
    /\ UNCHANGED varsOther

\* Lines 87-108: WebRetrievalProvider.retrieve.
WebRetrieve ==
    /\ provider = "web"
    /\ kpc = "start"
    /\ \E embed_ok \in BOOLEAN :
          LET hits == StoreRetrieve(store, call.query, call.top_k, PyNone, embed_ok)
          IN  /\ returned' = PyList([n \in 1..Len(hits) |-> WebResult(hits[n])])
              /\ trace' = Append(trace, [op |-> "retrieve", ok |-> embed_ok])
    /\ kpc' = "done"
    /\ UNCHANGED <<provider, call, site, store, found, idx, pages_meta,
                   query_emb, ingested_doc_ids>>
    /\ UNCHANGED varsOther

\* KiwixStart without the test of the query.
KiwixStartAnyQuery ==
    /\ provider = "kiwix"
    /\ kpc = "start"
    /\ IF call.base_url = <<>>
       THEN /\ kpc' = "done"
            /\ returned' = PyList(<<>>)
       ELSE /\ kpc' = "search"
            /\ UNCHANGED returned
    /\ UNCHANGED <<provider, call, site, store, found, idx, pages_meta,
                   query_emb, ingested_doc_ids, trace>>
    /\ UNCHANGED varsOther

\* Lines 117-124: KiwixRetrievalProvider.retrieve up to the await of search.
KiwixStart ==
    /\ provider = "kiwix"
    /\ kpc = "start"
    /\ IF call.base_url = <<>> \/ QueryText(call.query) = <<>>
       THEN /\ kpc' = "done"
            /\ returned' = PyList(<<>>)
       ELSE /\ kpc' = "search"
            /\ UNCHANGED returned
    /\ UNCHANGED <<provider, call, site, store, found, idx, pages_meta,
                   query_emb, ingested_doc_ids, trace>>
    /\ UNCHANGED varsOther

\* Lines 124-137 (180): search comes back; up to the first fetch_page.
KiwixSearch ==
    /\ kpc = "search"
    /\ \E res \in SearchResults :
          /\ found' = res
          /\ IF res = <<>>
             THEN /\ kpc' = "done"
                  /\ returned' = PyList(<<>>)
                  /\ UNCHANGED idx
             ELSE IF ~PagesArg(call.kwargs).ok
             THEN /\ kpc' = "raised"
                  /\ returned' = Raised
                  /\ UNCHANGED idx
             ELSE /\ kpc' = "fetch"
                  /\ idx' = 1
                  /\ UNCHANGED returned
    /\ trace' = Append(trace, [op |-> "search", top_k |-> call.top_k])
    /\ UNCHANGED <<provider, call, site, store, pages_meta, query_emb,
                   ingested_doc_ids>>
    /\ UNCHANGED varsOther

\* Lines 149-152 and 204-207: what follows the loop over results[:pages].
LoopExit(pm, ids) ==
    IF ~Persist(call.kwargs)
    THEN IF pm = <<>>
         THEN /\ kpc' = "done"
              /\ returned' = PyList(<<>>)
         ELSE /\ kpc' = "embed_query"
              /\ UNCHANGED returned
    ELSE IF ids = <<>>
         THEN /\ kpc' = "done"
              /\ returned' = PyList(<<>>)
         ELSE /\ kpc' = "retrieve"
              /\ UNCHANGED returned

\* KiwixLoop leaving the loop at the first page whose fetch fails.
KiwixLoopBreak(page, pm, ids) ==
    IF idx < LastPage /\ ~Falsy(page)
    THEN /\ idx' = idx + 1
         /\ kpc' = "fetch"
         /\ UNCHANGED returned
    ELSE /\ LoopExit(pm, ids)
         /\ UNCHANGED idx

\* Lines 137 and 180: after the item whose page is page, on to the next item
\* of results[:pages] or out of the loop.
KiwixLoop(page, pm, ids) ==
    IF idx < LastPage
    THEN /\ idx' = idx + 1
         /\ kpc' = "fetch"
         /\ UNCHANGED returned
    ELSE /\ LoopExit(pm, ids)
         /\ UNCHANGED idx

\* Lines 138-148 and 181-187: fetch_page comes back for results[idx].
KiwixFetch ==
    /\ kpc = "fetch"
    /\ LET item == found[idx]
           page == FetchPage(site, ItemPath(item))
       IN  /\ trace' = Append(trace, [op |-> "fetch_page", path |-> ItemPath(item)])
           /\ IF ~Persist(call.kwargs)
              THEN LET pm == IF Falsy(page) THEN pages_meta
                             ELSE Append(pages_meta,
                                         PageMeta(item, page, DomainOf(call.base_url)))
                   IN  /\ pages_meta' = pm
                       /\ KiwixLoop(page, pm, ingested_doc_ids)
              ELSE /\ UNCHANGED pages_meta
                   /\ IF ~Falsy(page) /\ PageText(page) # <<>>
                      THEN /\ kpc' = "ingest"
                           /\ UNCHANGED <<idx, returned>>
                      ELSE KiwixLoop(PyNone, pages_meta, ingested_doc_ids)
    /\ UNCHANGED <<provider, call, site, store, found, query_emb, ingested_doc_ids>>
    /\ UNCHANGED varsOther

\* Lines 188-202: add_document comes back for the page of results[idx].
KiwixIngest ==
    /\ kpc = "ingest"
    /\ LET item == found[idx]
           path == ItemPath(item)
           page == FetchPage(site, path)
           title == Chars(Or(Or(DictGet(item, KTitle), PyStr(path)),
                             PyStr(<<"k", "i", "w", "i", "x">>)))
           url == Chars(Or(DictGet(page, KUrl), PyStr(<<>>)))
           ids == Append(ingested_doc_ids, Len(store) + 1)
       IN  /\ store' = AddDocument(store, PyStr(KiwixPrefix \o title), PageText(page),
                                   PyStr(title), Or(PyStr(url), PyStr(path)),
                                   PyStr(<<"k", "i", "w", "i", "x">>),
                                   PyStr(<<"k", "i", "w", "i", "x">>))
           /\ ingested_doc_ids' = ids
           /\ trace' = Append(trace, [op |-> "add_document", path |-> path])
           /\ KiwixLoop(page, pages_meta, ids)
    /\ UNCHANGED <<provider, call, site, found, pages_meta, query_emb>>
    /\ UNCHANGED varsOther

\* Lines 152-153: embed_texts([q]) comes back or raises.
KiwixEmbedQuery ==
    /\ kpc = "embed_query"
    /\ \E embed_ok \in BOOLEAN :
          /\ IF embed_ok
             THEN /\ query_emb' = EmbedTexts(<<QueryText(call.query)>>)[1]
                  /\ kpc' = "embed_pages"
                  /\ UNCHANGED returned
             ELSE /\ kpc' = "raised"
                  /\ returned' = Raised
                  /\ UNCHANGED query_emb
          /\ trace' = Append(trace, [op |-> "embed_texts", n |-> 1, ok |-> embed_ok])
    /\ UNCHANGED <<provider, call, site, store, found, idx, pages_meta,
                   ingested_doc_ids>>
    /\ UNCHANGED varsOther

\* Lines 154-177: embed_texts(texts) comes back or raises.
KiwixEmbedPages ==
    /\ kpc = "embed_pages"
    /\ \E embed_ok \in BOOLEAN :
          /\ IF embed_ok
             THEN /\ returned' = PyList(TransientResults(pages_meta, query_emb, call.top_k))
                  /\ kpc' = "done"
             ELSE /\ kpc' = "raised"
                  /\ returned' = Raised
          /\ trace' = Append(trace, [op |-> "embed_texts", n |-> Len(pages_meta),
                                     ok |-> embed_ok])
    /\ UNCHANGED <<provider, call, site, store, found, idx, pages_meta, query_emb,
                   ingested_doc_ids>>
    /\ UNCHANGED varsOther

\* Lines 207-228: ragstore.retrieve comes back in persistent mode.
KiwixRetrieve ==
    /\ kpc = "retrieve"
    /\ \E embed_ok \in BOOLEAN :
          LET ids == PyList([n \in 1..Len(ingested_doc_ids) |-> PyInt(ingested_doc_ids[n])])
              hits == StoreRetrieve(store, PyStr(QueryText(call.query)), call.top_k,
                                    ids, embed_ok)
          IN  /\ returned' = PyList([n \in 1..Len(hits) |->
                                       KiwixHitResult(hits[n], DomainOf(call.base_url))])
              /\ trace' = Append(trace, [op |-> "retrieve", ok |-> embed_ok])
    /\ kpc' = "done"
    /\ UNCHANGED <<provider, call, site, store, found, idx, pages_meta, query_emb,
                   ingested_doc_ids>>
    /\ UNCHANGED varsOther

InitRetrieve ==
    /\ provider \in {"doc", "web", "kiwix"}
    /\ call \in [base_url : BaseUrls, query : Queries, top_k : TopKs,
                 kwargs : Kwargs \cup DocKwargs]
    /\ provider = "kiwix" => call.kwargs \in Kwargs
    /\ provider = "doc" => call.base_url = <<>> /\ call.kwargs \in DocKwargs
    /\ provider = "web" => call.base_url = <<>> /\ call.kwargs = PyDict(<<>>)
    /\ site \in Sites
    /\ provider # "kiwix" => site = SiteDown
    /\ store \in Stores
    /\ kpc = "start"
    /\ found = <<>>
    /\ idx = 0
    /\ pages_meta = <<>>
    /\ query_emb = <<>>
    /\ ingested_doc_ids = <<>>
    /\ trace = <<>>
    /\ returned = Pending
    /\ max_size = LargeCap
    /\ reply = Pending
    /\ ScanIdle
    /\ RouteIdle
    /\ RerankIdle
    /\ RestIdle

NextRetrieve ==
    \/ DocRetrieve
    \/ WebRetrieve
    \/ KiwixStart
    \/ KiwixSearch
    \/ KiwixFetch
    \/ KiwixIngest
    \/ KiwixEmbedQuery
    \/ KiwixEmbedPages
    \/ KiwixRetrieve

SpecRetrieve == InitRetrieve /\ [][NextRetrieve]_vars

\* ------------------------------------------------------------------------
\* Reading of a Kiwix call, stated apart from the coroutine
\* ------------------------------------------------------------------------

Transient == provider = "kiwix" /\ ~Persist(call.kwargs)

Persistent == provider = "kiwix" /\ Persist(call.kwargs)

\* The loop over the search results has been left.
LoopOver ==
    /\ provider = "kiwix"
    /\ found # <<>>
    /\ kpc \in {"embed_query", "embed_pages", "retrieve", "done", "raised"}

\* The fetch_page calls made so far, in order.
Fetches == SelectSeq(trace, LAMBDA e : e.op = "fetch_page")

\* What the server holds for the n-th search result.
PageAt(n) == FetchPage(site, ItemPath(found[n]))

\* The text of the n-th search result's page as it was fetched.
RawText(n) == Chars(Or(DictGet(PageAt(n), KText), PyStr(<<>>)))

\* The search results among the first m whose fetch succeeded.
Succeeded(m) == {n \in 1..Min(m, Len(found)) : ~Falsy(PageAt(n))}

\* The results returned.
Out == IF returned.t = "list" THEN returned.a ELSE <<>>

\* C14: in both modes a page whose fetch fails is skipped and the pages after
\* it are still fetched and processed: a failed fetch never makes the call
\* raise, every one of results[:pages] is fetched, the pages kept are
\* exactly those whose fetch succeeded (in persistent mode: succeeded with
\* text), and every result returned comes from one of them; one failed and
\* one successful fetch in transient mode give exactly the successful page's
\* result.
C14_FailedFetchSkipped ==
    LoopOver =>
        /\ Len(Fetches) = LastPage
        /\ kpc = "raised" => trace[Len(trace)].op = "embed_texts"
        /\ Transient =>
              /\ Len(pages_meta) = Cardinality(Succeeded(LastPage))
              /\ \A m \in 1..Len(pages_meta) : \E n \in Succeeded(LastPage) :
                    /\ pages_meta[m].url = DictGet(PageAt(n), KUrl)
                    /\ Cardinality(Succeeded(n)) = m
              /\ kpc = "done" =>
                    /\ \A r \in 1..Len(Out) : \E n \in Succeeded(LastPage) :
                          /\ Out[r].url = DictGet(PageAt(n), KUrl)
                          /\ Out[r].text = RawText(n)
                    /\ Len(Out) = Len(SliceTo(pages_meta, call.top_k))
        /\ Persistent =>
              /\ Len(ingested_doc_ids) =
                    Cardinality({n \in Succeeded(LastPage) : PageText(PageAt(n)) # <<>>})
              /\ kpc = "done" =>
                    \A r \in 1..Len(Out) : \E n \in Succeeded(LastPage) :
                        Out[r].text = PageText(PageAt(n))
        /\ (Transient /\ kpc = "done" /\ found = <<ItemA, ItemB>>
                /\ site = SiteOneFails /\ Len(Fetches) = 2 /\ call.top_k >= 1) =>
              /\ Len(Out) = 1
              /\ Out[1].url = PyStr(U1)
              /\ Out[1].text = <<"a">>

\* C14 witness: transient mode, the first of two fetches failed, the second
\* succeeded and the call returned the second page's result.
C14_Witness ==
    /\ Transient
    /\ kpc = "done"
    /\ found = <<ItemA, ItemB>>
    /\ Falsy(PageAt(1))
    /\ ~Falsy(PageAt(2))
    /\ Len(Fetches) = 2
    /\ Len(Out) = 1
    /\ Out[1].url = DictGet(PageAt(2), KUrl)

\* C15: in both modes, when none of the pages fetched yields non-empty text
\* (every fetch failed or every fetched page has empty text), the call
\* returns an empty list and does not raise: it never goes on to embed or to
\* query the store.
C15_NoTextGivesEmpty ==
    LoopOver /\ (\A n \in Succeeded(LastPage) : RawText(n) = <<>>) =>
        /\ kpc = "done"
        /\ returned = PyList(<<>>)

\* An embedding call of the trace failed.
EmbedFailed == \E n \in 1..Len(trace) : trace[n].op \in {"embed_texts", "retrieve"} /\ ~trace[n].ok

\* C16: when the embedding service fails during a provider's retrieve, the
\* provider returns an empty list and does not raise; so does Kiwix transient
\* mode when embedding the query or the pages fails.
C16_EmbedFailureGivesEmpty ==
    EmbedFailed =>
        /\ kpc = "done"
        /\ returned = PyList(<<>>)

\* C17: retrieve returns at most top_k results, top_k being clamped from
\* below so that a zero or negative top_k gives no more than one, and every
\* result has score >= 0; stated here for KiwixRetrievalProvider in transient
\* mode, where the results are items[:top_k] scored by the raw cosine.
C17_AtMostKNonNegative ==
    Transient /\ kpc = "done" =>
        /\ Len(Out) <= Max(call.top_k, 1)
        /\ \A r \in 1..Len(Out) : Out[r].score >= 0

\* The value of the pages option.
PagesOption == DictGet(call.kwargs, KPages)

\* The number of pages C18 names: the option clamped to [1, 10], the default
\* when the option is absent.
ClampedPages ==
    IF PagesOption = PyNone THEN DefaultPages
    ELSE Max(MinPages, Min(PagesOption.n, MaxPages))

\* C18: the number of page bodies fetched in one call is min(number of
\* search results, clamp(pages, 1, 10)), taken from the front of the search
\* results, for every value of pages: 0, negative and above 10 included.
C18_PagesClamped ==
    LoopOver =>
        /\ Len(Fetches) = Min(Len(found), ClampedPages)
        /\ \A n \in 1..Len(Fetches) : Fetches[n].path = ItemPath(found[n])

\* C19: retrieve called with a missing, empty or whitespace-only query
\* returns an empty list and does not raise; KiwixRetrievalProvider does so
\* before any search, page fetch, embedding call or document insertion.
C19_BlankQueryGivesEmpty ==
    (provider # "none" /\ kpc # "start"
        /\ (call.query = PyNone \/ Strip(call.query.s) = <<>>)) =>
        /\ kpc = "done"
        /\ returned = PyList(<<>>)
        /\ provider = "kiwix" => trace = <<>> /\ found = <<>> /\ store \in Stores

\* C19 witness: a Kiwix provider with a base URL was asked a whitespace-only
\* query and returned the empty list without calling anything.
C19_Witness ==
    /\ provider = "kiwix"
    /\ call.base_url # <<>>
    /\ call.query = PyStr(<<" ">>)
    /\ kpc = "done"
    /\ returned = PyList(<<>>)
    /\ trace = <<>>

\* The URL of a result as the digest reads it.
UrlOf(r) == IF r.url.t = "str" THEN r.url.s ELSE <<>>

\* The prefix of the ref_id of each provider.
RefPrefix ==
    IF provider = "doc" THEN DocPrefix
    ELSE IF provider = "web" THEN WebPrefix ELSE KiwixPrefix

\* C20: in transient Kiwix mode chunk_id is a function of the page URL
\* alone: it is the digest of the URL, the same in every call, so that two
\* results with the same URL have the same chunk_id whatever their title,
\* text, score or position; every result's ref_id is "kiwix:<chunk_id>"
\* ("doc:<chunk_id>", "web:<chunk_id>" for the other providers).
C20_ChunkIdFromUrl ==
    kpc = "done" =>
        /\ \A r \in 1..Len(Out) : Out[r].ref_id = RefPrefix \o Out[r].chunk_id
        /\ Transient =>
              /\ \A r \in 1..Len(Out) : Out[r].chunk_id = Sha12(UrlOf(Out[r]))
              /\ \A r1 \in 1..Len(Out) : \A r2 \in 1..Len(Out) :
                    Out[r1].url = Out[r2].url => Out[r1].chunk_id = Out[r2].chunk_id

\* C20 witness: one transient call returned two results with the same URL,
\* different titles, texts and scores, and the same chunk_id.
C20_Witness ==
    /\ Transient
    /\ kpc = "done"
    /\ \E r1 \in 1..Len(Out) : \E r2 \in 1..Len(Out) :
          /\ r1 # r2
          /\ Out[r1].url = Out[r2].url
          /\ Out[r1].title # Out[r2].title
          /\ Out[r1].text # Out[r2].text
          /\ Out[r1].score # Out[r2].score
          /\ Out[r1].chunk_id = Out[r2].chunk_id
          /\ Out[r1].ref_id = KiwixPrefix \o Sha12(U1)

\* A Kiwix call whose persist option is absent or false.
PersistOff ==
    /\ provider = "kiwix"
    /\ DictGet(call.kwargs, KPersist) \in {PyNone, PyBool(FALSE)}

\* The add_document calls made so far, in order.
Inserts == SelectSeq(trace, LAMBDA e : e.op = "add_document")

\* C21: a KiwixRetrievalProvider.retrieve call in transient mode (persist
\* absent or false) persists nothing: no step of the call inserts a document
\* or chunk, so the document store stays what it was before the call,
\* whatever the search, the fetches and the embedding calls come back with.
C21_TransientPersistsNothing ==
    [][PersistOff => store' = store /\ Inserts' = <<>>]_vars

\* C21 witness: a transient call over a store that holds two documents
\* searched, fetched pages, embedded and returned results, the store still
\* holding those two documents.
C21_Witness ==
    /\ PersistOff
    /\ kpc = "done"
    /\ Len(Fetches) >= 2
    /\ Len(Out) >= 1
    /\ Inserts = <<>>
    /\ store = StoreTwo

\* ------------------------------------------------------------------------
\* retrieval.py: concurrent retrieve calls in persistent mode. The calls run
\* as coroutines of one event loop: a call runs alone from one await to the
\* next, and any call may be resumed at an await. The calls share the Kiwix
\* server (site) and the document store (store).
\* ------------------------------------------------------------------------

\* The number of concurrent calls.
NReqs == 2

Reqs == 1..NReqs

\* The arguments of the concurrent calls: persist is on.
ReqKwargs ==
    {PyDict(<< <<KPersist, PyBool(TRUE)>> >>),
     PyDict(<< <<KPersist, PyBool(TRUE)>>, <<KPages, PyInt(1)>> >>)}

ReqCalls ==
    [base_url : {BaseUrl(PyStr(<<"h", "t", "t", "p", ":", "/", "/", "h", "/">>))},
     query : {PyStr(<<"q">>), PyStr(<<" ">>)}, top_k : {1, 2}, kwargs : ReqKwargs]

ReqSearchResults == {<<>>, <<ItemA>>, <<ItemA, ItemB>>, <<ItemB, ItemA, ItemC>>}

ReqSites == {SiteUp, SiteOneFails, SiteEmptyText, SiteSameUrl}

\* Line 189: str(page.get("url") or "").
PageUrl(page) == Chars(Or(DictGet(page, KUrl), PyStr(<<>>)))

\* Line 198: the path a page is stored under, url or path.
StoredPath(page, path) == Chars(Or(PyStr(PageUrl(page)), PyStr(path)))

\* Line 188: str(item.get("title") or path or "kiwix").
DocTitle(item, path) ==
    Chars(Or(Or(DictGet(item, KTitle), PyStr(path)), PyStr(<<"k", "i", "w", "i", "x">>)))

\* Lines 180 and 204-207: after an item of results[:pages], on to the next
\* one or out of the loop, ids being ingested_doc_ids.
ReqLoop(rq, ids) ==
    IF rq.idx < Min(Len(rq.found), NPages(rq.call.kwargs))
    THEN [rq EXCEPT !.idx = rq.idx + 1, !.pc = "fetch", !.ids = ids]
    ELSE IF ids = <<>>
    THEN [rq EXCEPT !.pc = "done", !.returned = PyList(<<>>), !.ids = ids]
    ELSE [rq EXCEPT !.pc = "retrieve", !.ids = ids]

varsCall ==
    <<provider, call, kpc, found, idx, pages_meta, query_emb, ingested_doc_ids,
      trace, returned>>

varsNotIngest ==
    <<varsScan, varsRoute, varsRerank, reply, max_size, varsCall, varsCache,
      varsStores>>

\* Lines 117-124: call r up to the await of search.
ReqStart(r) ==
    /\ reqs[r].pc = "start"
    /\ reqs' = [reqs EXCEPT ![r] =
          IF reqs[r].call.base_url = <<>> \/ QueryText(reqs[r].call.query) = <<>>
          THEN [reqs[r] EXCEPT !.pc = "done", !.returned = PyList(<<>>)]
          ELSE [reqs[r] EXCEPT !.pc = "search"]]
    /\ UNCHANGED <<site, store>>
    /\ UNCHANGED varsNotIngest

\* Lines 124-135 and 179-180: search comes back to call r, whose persist
\* option is on; up to the first fetch_page.
ReqSearch(r) ==
    /\ reqs[r].pc = "search"
    /\ Persist(reqs[r].call.kwargs)
    /\ \E res \in ReqSearchResults :
          reqs' = [reqs EXCEPT ![r] =
              IF res = <<>>
              THEN [reqs[r] EXCEPT !.pc = "done", !.returned = PyList(<<>>)]
              ELSE [reqs[r] EXCEPT !.pc = "fetch", !.found = res, !.idx = 1]]
    /\ UNCHANGED <<site, store>>
    /\ UNCHANGED varsNotIngest

\* Lines 181-191: fetch_page comes back to call r; a page with text goes to
\* add_document, whose insertion is in progress until it comes back.
ReqFetch(r) ==
    /\ reqs[r].pc = "fetch"
    /\ LET rq == reqs[r]
           path == ItemPath(rq.found[rq.idx])
           page == FetchPage(site, path)
       IN  reqs' = [reqs EXCEPT ![r] =
               IF ~Falsy(page) /\ PageText(page) # <<>>
               THEN [rq EXCEPT !.pc = "ingest", !.adding = PyStr(StoredPath(page, path))]
               ELSE ReqLoop(rq, rq.ids)]
    /\ UNCHANGED <<site, store>>
    /\ UNCHANGED varsNotIngest

\* Lines 191-202: add_document comes back to call r with the id of the
\* document it stored.
ReqIngest(r) ==
    /\ reqs[r].pc = "ingest"
    /\ LET rq == reqs[r]
           item == rq.found[rq.idx]
           path == ItemPath(item)
           page == FetchPage(site, path)
           title == DocTitle(item, path)
       IN  /\ store' = AddDocument(store, PyStr(KiwixPrefix \o title), PageText(page),
                                   PyStr(title), rq.adding,
                                   PyStr(<<"k", "i", "w", "i", "x">>),
                                   PyStr(<<"k", "i", "w", "i", "x">>))
           /\ reqs' = [reqs EXCEPT ![r] =
                 ReqLoop([rq EXCEPT !.adding = PyNone], Append(rq.ids, Len(store) + 1))]
    /\ UNCHANGED site
    /\ UNCHANGED varsNotIngest

\* Lines 207-228: ragstore.retrieve comes back to call r.
ReqRetrieve(r) ==
    /\ reqs[r].pc = "retrieve"
    /\ \E embed_ok \in BOOLEAN :
          LET rq == reqs[r]
              ids == PyList([n \in 1..Len(rq.ids) |-> PyInt(rq.ids[n])])
              hits == StoreRetrieve(store, PyStr(QueryText(rq.call.query)),
                                    rq.call.top_k, ids, embed_ok)
          IN  reqs' = [reqs EXCEPT ![r] =
                  [rq EXCEPT !.pc = "done",
                             !.returned = PyList([n \in 1..Len(hits) |->
                                 KiwixHitResult(hits[n], DomainOf(rq.call.base_url))])]]
    /\ UNCHANGED <<site, store>>
    /\ UNCHANGED varsNotIngest

InitIngest ==
    /\ reqs \in [Reqs -> [pc : {"start"}, call : ReqCalls, found : {<<>>}, idx : {0},
                          ids : {<<>>}, adding : {PyNone}, returned : {Pending}]]
    /\ site \in ReqSites
    /\ store = <<>>
    /\ provider = "none"
    /\ call = [base_url |-> <<>>, query |-> PyNone, top_k |-> 0, kwargs |-> PyDict(<<>>)]
    /\ kpc = "idle"
    /\ found = <<>>
    /\ idx = 0
    /\ pages_meta = <<>>
    /\ query_emb = <<>>
    /\ ingested_doc_ids = <<>>
    /\ trace = <<>>
    /\ returned = Pending
    /\ max_size = LargeCap
    /\ reply = Pending
    /\ ScanIdle
    /\ RouteIdle
    /\ RerankIdle
    /\ CacheIdle
    /\ StoresIdle

NextIngest ==
    \E r \in Reqs :
        \/ ReqStart(r)
        \/ ReqSearch(r)
        \/ ReqFetch(r)
        \/ ReqIngest(r)
        \/ ReqRetrieve(r)

SpecIngest == InitIngest /\ [][NextIngest]_vars

\* Call r has an insertion in progress: add_document was called and has not
\* come back.
Inserting(r) == reqs[r].pc = "ingest"

\* C22: in Kiwix persistent mode, under any interleaving of retrieve calls
\* (two concurrent requests whose search results contain the same page URL
\* included), two document insertions for the same URL are never in progress
\* at the same time.
C22_NoOverlappingInsertions ==
    \A r1 \in Reqs : \A r2 \in Reqs :
        (r1 # r2 /\ Inserting(r1) /\ Inserting(r2)) => reqs[r1].adding # reqs[r2].adding

\* A DocRetrievalProvider call made with no doc_ids, group_name or source.
NoFilters ==
    /\ provider = "doc"
    /\ DictGet(call.kwargs, KDocIds) = PyNone
    /\ DictGet(call.kwargs, KGroupName) = PyNone
    /\ DictGet(call.kwargs, KSource) = PyNone

\* C23: a store query with no doc_ids, no group and no source filter searches
\* every chunk: DocRetrievalProvider hands the absent filters to the store as
\* they are (None), and with the embedding service up and a query that is
\* not blank the store answers with the best of all its chunks; over a store
\* holding one chunk that matches the query the call returns that chunk, it
\* neither raises nor returns an empty list.
C23_UnscopedSearchesAll ==
    (NoFilters /\ kpc # "start") =>
        /\ kpc = "done"
        /\ trace[1].filters = [doc_ids |-> PyNone, group_name |-> PyNone, source |-> PyNone]
        /\ (trace[1].ok /\ QueryText(call.query) # <<>>) =>
              /\ returned.t = "list"
              /\ Len(Out) = Min(Len(store), Max(call.top_k, StoreMinK))
              /\ store = StoreOne =>
                    /\ Len(Out) = 1
                    /\ Out[1].text = <<"a">>
                    /\ Out[1].meta.doc_id = PyInt(1)
                    /\ Out[1].score > 0

\* C23 witness: a call without filters over the store of one matching chunk
\* returned that chunk.
C23_Witness ==
    /\ NoFilters
    /\ kpc = "done"
    /\ store = StoreOne
    /\ call.query = PyStr(<<"q">>)
    /\ trace[1].ok
    /\ Len(Out) = 1
    /\ Out[1].ref_id = DocPrefix \o <<"1">>

\* ------------------------------------------------------------------------
\* app.py: _cached_get and its module-level cache. The calls run as
\* coroutines of one event loop; a call is suspended while it waits for
\* _cache_lock and while its fetcher runs.
\* ------------------------------------------------------------------------

\* Line 23: _CACHE_MAX (256 unless the environment sets it), scaled down.
CACHE_MAX == 2

\* The number of _cached_get calls.
NGets == 3

Callers == 1..NGets

CacheKeys == {"a", "b", "c"}

\* The keys in the order in which calls first name them.
KeyRank(k) == CASE k = "a" -> 1 [] k = "b" -> 2 [] k = "c" -> 3

Ttls == {0, 2}

\* The last value of the clock.
MaxTime == 1

\* Line 51: the place of key k in the dict, 0 when it is not there.
KeyIndex(ch, k) ==
    IF \E n \in 1..Len(ch) : ch[n].key = k
    THEN CHOOSE n \in 1..Len(ch) : ch[n].key = k
    ELSE 0

\* The keys of the dict.
KeysOf(ch) == {ch[n].key : n \in 1..Len(ch)}

\* Line 51: _cache.get(key).
Lookup(ch, k) == IF KeyIndex(ch, k) = 0 THEN PyNone ELSE ch[KeyIndex(ch, k)]

\* Line 57: _cache[key] = (data, time.time()); a key the dict holds keeps
\* its place, a new key goes last.
Put(ch, k, data, ts) ==
    IF KeyIndex(ch, k) = 0
    THEN Append(ch, [key |-> k, data |-> data, ts |-> ts])
    ELSE [ch EXCEPT ![KeyIndex(ch, k)] = [key |-> k, data |-> data, ts |-> ts]]

\* Lines 59-60: over the limit, the first key of the dict is popped.
Evict(ch) == IF Len(ch) > CACHE_MAX THEN Tail(ch) ELSE ch

\* Lines 52-54: the entry is there and younger than ttl.
Fresh(entry, t, ttl) == entry # PyNone /\ t - entry.ts < ttl

\* LockFree with the lock never seen as taken.
LockFreeAlways(lk) == TRUE

\* Line 50: asyncio.Lock.acquire goes through at once when the lock is not
\* held and nobody waits for it.
LockFree(lk) == ~lk.locked /\ lk.waiters = <<>>

\* The run of a fetcher for key k that is in flight, 0 when there is none.
InFlight(k) ==
    IF \E h \in Callers : gets[h].pc = "fetching" /\ gets[h].key = k
    THEN gets[CHOOSE h \in Callers : gets[h].pc = "fetching" /\ gets[h].key = k].run
    ELSE 0

NoCall ==
    [pc |-> "idle", key |-> "", ttl |-> 0, result |-> Pending, during |-> 0,
     run |-> 0, seen |-> PyNone, readat |-> 0]

varsNotCache ==
    <<varsScan, varsRoute, varsRerank, reply, max_size, varsRetrieve, varsIngest,
      varsStores>>

\* Lines 51-56: call g, holding the lock, looks its key up and returns the
\* data of a fresh entry or starts its fetcher; rest is the queue of the lock.
CacheEnter(g, rec, rest) ==
    LET entry == Lookup(cache, rec.key)
        read == [rec EXCEPT !.seen = IF entry = PyNone THEN PyNone ELSE entry.data,
                            !.readat = clock]
    IN  IF Fresh(entry, clock, rec.ttl)
        THEN /\ gets' = [gets EXCEPT ![g] = [read EXCEPT !.pc = "done",
                                                         !.result = entry.data]]
             /\ cache_lock' = [locked |-> FALSE, waiters |-> rest]
             /\ UNCHANGED runs
        ELSE /\ gets' = [gets EXCEPT ![g] = [read EXCEPT !.pc = "fetching",
                                                         !.run = Len(runs) + 1]]
             /\ cache_lock' = [locked |-> TRUE, waiters |-> rest]
             /\ runs' = Append(runs, [key |-> rec.key, at |-> -1, ok |-> FALSE])

\* Lines 48-56: a call arrives; it takes the lock or queues for it. The calls
\* are numbered in the order they arrive, and so are the keys.
CacheCall(g) ==
    /\ gets[g].pc = "idle"
    /\ \A h \in Callers : h < g => gets[h].pc # "idle"
    /\ \E k \in CacheKeys : \E ttl \in Ttls :
          /\ \A j \in CacheKeys : KeyRank(j) < KeyRank(k) =>
                j \in KeysOf(cache) \/ \E h \in Callers : gets[h].key = j
          /\ LET rec == [NoCall EXCEPT !.key = k, !.ttl = ttl, !.during = InFlight(k)]
             IN  IF LockFree(cache_lock)
                 THEN CacheEnter(g, rec, <<>>)
                 ELSE /\ gets' = [gets EXCEPT ![g] = [rec EXCEPT !.pc = "waiting"]]
                      /\ cache_lock' = [cache_lock EXCEPT !.waiters = Append(@, g)]
                      /\ UNCHANGED runs
    /\ UNCHANGED <<cache, clock>>
    /\ UNCHANGED varsNotCache

\* Lines 50-56: the lock was released and the call at the head of its queue
\* is resumed with it.
CacheResume(g) ==
    /\ gets[g].pc = "waiting"
    /\ ~cache_lock.locked
    /\ cache_lock.waiters # <<>>
    /\ Head(cache_lock.waiters) = g
    /\ CacheEnter(g, gets[g], Tail(cache_lock.waiters))
    /\ UNCHANGED <<cache, clock>>
    /\ UNCHANGED varsNotCache

\* Lines 56-61: the fetcher of call g comes back with data, which is stored
\* and returned, or raises; either way the lock is released.
CacheFetched(g) ==
    /\ gets[g].pc = "fetching"
    /\ \E ok \in BOOLEAN :
          /\ IF ok
             THEN /\ cache' = Evict(Put(cache, gets[g].key, PyInt(gets[g].run), clock))
                  /\ gets' = [gets EXCEPT ![g] = [@ EXCEPT !.pc = "done",
                                                          !.result = PyInt(gets[g].run)]]
             ELSE /\ gets' = [gets EXCEPT ![g] = [@ EXCEPT !.pc = "done",
                                                          !.result = Raised]]
                  /\ UNCHANGED cache
          /\ runs' = [runs EXCEPT ![gets[g].run] = [@ EXCEPT !.at = clock, !.ok = ok]]
    /\ cache_lock' = [cache_lock EXCEPT !.locked = FALSE]
    /\ UNCHANGED clock
    /\ UNCHANGED varsNotCache

\* Time passes.
CacheTick ==
    /\ clock < MaxTime
    /\ clock' = clock + 1
    /\ UNCHANGED <<cache, cache_lock, gets, runs>>
    /\ UNCHANGED varsNotCache

\* The cache the calls find: empty, or holding one entry stored earlier.
Caches == {<<>>, <<[key |-> "a", data |-> PyInt(0), ts |-> 0]>>}

InitCache ==
    /\ cache \in Caches
    /\ cache_lock = [locked |-> FALSE, waiters |-> <<>>]
    /\ clock = 0
    /\ gets = [g \in Callers |-> NoCall]
    /\ runs = <<>>
    /\ max_size = LargeCap
    /\ reply = Pending
    /\ ScanIdle
    /\ RouteIdle
    /\ RerankIdle
    /\ RetrieveIdle
    /\ IngestIdle
    /\ StoresIdle

NextCache ==
    \/ \E g \in Callers : CacheCall(g)
    \/ \E g \in Callers : CacheResume(g)
    \/ \E g \in Callers : CacheFetched(g)
    \/ CacheTick

SpecCache == InitCache /\ [][NextCache]_vars

\* C24: after every completed _cached_get call the cache holds at most
\* _CACHE_MAX entries, and whenever an insert pushes it over the limit the one
\* entry removed is the oldest entry: its stored fetch timestamp is the
\* earliest among all entries, also after an expired key has been refreshed
\* in place.
C24_EvictsOldest ==
    [][/\ Len(cache') <= CACHE_MAX
       /\ \A n \in 1..Len(cache) :
             cache[n].key \notin KeysOf(cache') =>
                 \A m \in 1..Len(cache') : cache[n].ts <= cache'[m].ts]_vars

\* The calls whose fetcher is running.
Fetching == {g \in Callers : gets[g].pc = "fetching"}

\* Call g arrived while a fetch for its key was in flight, and has returned.
JoinedFetch(g) == gets[g].pc = "done" /\ gets[g].during # 0

\* C25 as stated: under any interleaving of concurrent _cached_get calls at
\* most one fetcher is running at any time, and a call that arrived while a
\* fetch for its key was in flight does not run the fetcher again: it
\* returns the data stored by that fetch, as long as it reads it within ttl
\* seconds of its being stored.
C25_SharesFetchInFlight ==
    /\ Cardinality(Fetching) <= 1
    /\ \A g \in Callers :
          (/\ JoinedFetch(g)
           /\ runs[gets[g].during].ok
           /\ gets[g].readat - runs[gets[g].during].at < gets[g].ttl) =>
              /\ gets[g].run = 0
              /\ gets[g].result = PyInt(gets[g].during)

\* C25, amended: at most one fetcher is running at any time, and it runs
\* with the lock held; a call that arrived while a fetch for its key was in
\* flight and that, once it has the lock, finds the entry stored by that
\* fetch still in the cache (no later insertion has evicted it, no other call
\* has refreshed it) less than ttl seconds after it was stored, does not run
\* the fetcher and returns the data stored by that fetch.
C25_SharesFetchStillCached ==
    /\ Cardinality(Fetching) <= 1
    /\ \A g \in Fetching : cache_lock.locked
    /\ \A g \in Callers :
          (/\ JoinedFetch(g)
           /\ gets[g].seen = PyInt(gets[g].during)
           /\ gets[g].readat - runs[gets[g].during].at < gets[g].ttl) =>
              /\ gets[g].run = 0
              /\ gets[g].result = PyInt(gets[g].during)

\* C25 witness: a call that queued for the lock while a fetch for its key
\* was in flight has returned that fetch's data without running the fetcher.
C25_Witness ==
    \E g \in Callers :
        /\ JoinedFetch(g)
        /\ gets[g].seen = PyInt(gets[g].during)
        /\ gets[g].run = 0
        /\ gets[g].result = PyInt(gets[g].during)
        /\ Len(runs) = 1

\* The text from the first "[" to the last "]" of txt parses as one JSON
\* list.
OuterSpanIsList(txt) ==
    \E i \in 1..Len(txt) : \E j \in (i + 1)..Len(txt) :
        /\ txt[i] = "["
        /\ \A m \in 1..(i - 1) : txt[m] # "["
        /\ txt[j] = "]"
        /\ \A m \in (j + 1)..Len(txt) : txt[m] # "]"
        /\ JsonLoads(SubSeq(txt, i, j)).ok
        /\ JsonLoads(SubSeq(txt, i, j)).val.t = "list"

\* The LLM answered with content whose outer span is a JSON list.
AnsweredWithList ==
    HasContent(reply) /\ ~Non2xx(reply) /\ OuterSpanIsList(ContentOf(reply))

\* A valid id array followed by a stray "]", and by a second array.
ArrayThenBracket == Arr2(<<"2">>, <<"1">>) \o <<" ", "]">>

ArrayThenArray == Arr2(<<"2">>, <<"1">>) \o <<" ">> \o Arr1(<<"1">>)

\* C26: rerank_results applies an LLM ordering only when the text from the
\* first "[" to the last "]" of the LLM content parses as a single JSON list;
\* in every other case, a valid id array followed by further text that
\* contains "]" or a second array included, the list returned is the input
\* list in its original order.
C26_OrderOnlyFromOuterSpan ==
    Reranked =>
        /\ ranked # Unchanged(results) => AnsweredWithList
        /\ ~AnsweredWithList => ranked = Unchanged(results)
        /\ (HasContent(reply) /\ ContentOf(reply) \in {ArrayThenBracket, ArrayThenArray}) =>
              ranked = Unchanged(results)

\* C26 witness: the LLM answered "[2, 1] ]" on at least two candidates and
\* the list came back in its original order.
C26_Witness ==
    /\ Reranked
    /\ HasContent(reply)
    /\ ~Non2xx(reply)
    /\ ContentOf(reply) = ArrayThenBracket
    /\ Len(candidates) >= 2
    /\ ranked = Unchanged(results)

\* ------------------------------------------------------------------------
\* chatstore.py: the chats, their messages and their tags
\* ------------------------------------------------------------------------

\* How many chats are created and how many messages are inserted.
MaxChats == 3

MaxMsgs == 3

\* How many calls are made to chatstore.
MaxCalls == 5

\* The chat ids callers address, whether a chat has that id or not; the n-th
\* id uuid4 gives out is written n.
ChatIds == 1..MaxChats

\* The titles, messages and tags callers pass.
Titles == {<<"A">>}

NewTitles == {<<"B">>}

UserX == [role |-> "user", content |-> <<"x">>]

AssistantY == [role |-> "assistant", content |-> <<"y">>]

MessageLists == {<<>>, <<UserX>>, <<AssistantY>>, <<UserX, AssistantY>>}

TagArgs == {<<"t">>, <<"!">>}

\* The default of the columns settings and prefs.
EmptyObject == <<"{", "}">>

\* Line 156: the length of last_preview.
PreviewLen == 100

\* Line 295: what fork_chat appends to the title.
ForkSuffix == <<" ", "(", "f", "o", "r", "k", ")">>

\* The database as one value: the three tables, the AUTOINCREMENT counter of
\* messages and the number of ids uuid4 has given out.
Db ==
    [chats |-> chats, messages |-> messages, tags |-> tags, msg_seq |-> msg_seq,
     chat_seq |-> chat_seq]

\* Lines 14-16: the body of "with _db_conn()" came to its end: the changes are
\* committed and value is returned.
Commit(db, value) == [db |-> db, raised |-> "", value |-> value]

\* Lines 14-18: the body raised, commit() is skipped and close() drops the
\* changes made on the connection: db is the database before the call.
Rollback(db, exc) == [db |-> db, raised |-> exc, value |-> PyNone]

\* The rows of messages that belong to chat_id, in the order of id.
MessagesOf(msgs, chat_id) == SelectSeq(msgs, LAMBDA m : m.chat_id = chat_id)

\* Lines 83-92.
CreateChat(db, title) ==
    LET chat_id == db.chat_seq + 1
        row == [title |-> title, last_preview |-> <<>>, archived |-> 0,
                pinned |-> 0, settings |-> EmptyObject, prefs |-> EmptyObject]
    IN  Commit([db EXCEPT !.chats = [c \in DOMAIN db.chats \cup {chat_id} |->
                                        IF c = chat_id THEN row ELSE db.chats[c]],
                          !.chat_seq = chat_id],
               [id |-> chat_id, title |-> title, archived |-> FALSE,
                pinned |-> FALSE])

\* Lines 94-117: LIMIT limit OFFSET offset over the messages of the chat in
\* the order of id; a negative LIMIT is no limit. The columns model,
\* timestamp and meta_json are not modelled.
GetChat(db, chat_id, limit, offset) ==
    IF chat_id \notin DOMAIN db.chats
    THEN Rollback(db, "KeyError")
    ELSE LET rows == MessagesOf(db.messages, chat_id)
             skip == Min(Max(offset, 0), Len(rows))
             n == IF limit < 0 THEN Len(rows) - skip
                  ELSE Min(limit, Len(rows) - skip)
             chat == db.chats[chat_id]
         IN  Commit(db,
                 [chat |-> [id |-> chat_id, title |-> chat.title,
                            archived |-> chat.archived # 0,
                            pinned |-> chat.pinned # 0],
                  messages |-> [k \in 1..n |->
                      [id |-> rows[skip + k].id, role |-> rows[skip + k].role,
                       content |-> rows[skip + k].content]]])

\* UPDATE chats SET ... WHERE id = chat_id: the table after it; rowcount is 1
\* when the chat exists and 0 otherwise.
RowCount(db, chat_id) == IF chat_id \in DOMAIN db.chats THEN 1 ELSE 0

\* Lines 119-124.
RenameChat(db, chat_id, title) ==
    IF RowCount(db, chat_id) = 0
    THEN Rollback(db, "KeyError")
    ELSE Commit([db EXCEPT !.chats[chat_id].title = title], PyNone)

\* Lines 126-131.
SetArchived(db, chat_id, archived) ==
    IF RowCount(db, chat_id) = 0
    THEN Rollback(db, "KeyError")
    ELSE Commit([db EXCEPT !.chats[chat_id].archived = IF archived THEN 1 ELSE 0],
                PyNone)

\* Lines 133-138.
SetPinned(db, chat_id, pinned) ==
    IF RowCount(db, chat_id) = 0
    THEN Rollback(db, "KeyError")
    ELSE Commit([db EXCEPT !.chats[chat_id].pinned = IF pinned THEN 1 ELSE 0],
                PyNone)

\* Lines 140-157: the messages get the next ids in order; last_preview is the
\* first 100 characters of the last message, or empty for no messages.
AppendMessages(db, chat_id, msgs) ==
    IF chat_id \notin DOMAIN db.chats
    THEN Rollback(db, "KeyError")
    ELSE LET rows == [k \in 1..Len(msgs) |->
                         [id |-> db.msg_seq + k, chat_id |-> chat_id,
                          role |-> msgs[k].role, content |-> msgs[k].content]]
             last_preview ==
                 IF msgs = <<>> THEN <<>>
                 ELSE SubSeq(msgs[Len(msgs)].content, 1,
                             Min(PreviewLen, Len(msgs[Len(msgs)].content)))
         IN  Commit([db EXCEPT !.messages = db.messages \o rows,
                               !.msg_seq = db.msg_seq + Len(msgs),
                               !.chats[chat_id].last_preview = last_preview],
                    PyNone)

\* Lines 159-165: rowcount of the DELETE is a number, never None, so line 164
\* is not reached; the UPDATE changes the row of the chat when there is one.
ClearChat(db, chat_id) ==
    LET kept == SelectSeq(db.messages, LAMBDA m : m.chat_id # chat_id)
    IN  Commit([db EXCEPT !.messages = kept,
                          !.chats = [c \in DOMAIN db.chats |->
                              IF c = chat_id
                              THEN [db.chats[c] EXCEPT !.last_preview = <<>>]
                              ELSE db.chats[c]]],
               PyNone)

\* Lines 167-174: the three DELETEs, dropped again when no chat was deleted.
DeleteChat(db, chat_id) ==
    IF RowCount(db, chat_id) = 0
    THEN Rollback(db, "KeyError")
    ELSE Commit([db EXCEPT
                    !.messages = SelectSeq(db.messages, LAMBDA m : m.chat_id # chat_id),
                    !.tags = {p \in db.tags : p[1] # chat_id},
                    !.chats = [c \in DOMAIN db.chats \ {chat_id} |-> db.chats[c]]],
                PyNone)

\* Line 185: re.match(r"^[\w-]+$", tag) over the characters the tags here are
\* made of: word characters or "-", one at least, and "$" also matches before
\* a final newline.
WordChars == {"t", "u", "_", "0"}

TagMatches(tag) ==
    LET body == IF tag # <<>> /\ tag[Len(tag)] = "\n"
                THEN SubSeq(tag, 1, Len(tag) - 1) ELSE tag
    IN  /\ body # <<>>
        /\ \A k \in 1..Len(body) : body[k] \in WordChars \cup {"-"}

\* Lines 183-188: INSERT OR IGNORE into tags; no look at the chats table.
AddTag(db, chat_id, tag) ==
    IF ~TagMatches(tag)
    THEN Rollback(db, "ValueError")
    ELSE Commit([db EXCEPT !.tags = db.tags \cup {<<chat_id, tag>>}], PyNone)

\* Lines 195-203.
TogglePinned(db, chat_id) ==
    IF chat_id \notin DOMAIN db.chats
    THEN Rollback(db, "KeyError")
    ELSE LET row == db.chats[chat_id]
             new == IF row.pinned # 0 THEN 0 ELSE 1
         IN  Commit([db EXCEPT !.chats[chat_id].pinned = new],
                    [archived |-> row.pinned # 0, pinned |-> new # 0])

\* Lines 205-213.
ToggleArchived(db, chat_id) ==
    IF chat_id \notin DOMAIN db.chats
    THEN Rollback(db, "KeyError")
    ELSE LET row == db.chats[chat_id]
             new == IF row.archived # 0 THEN 0 ELSE 1
         IN  Commit([db EXCEPT !.chats[chat_id].archived = new],
                    [archived |-> new # 0, pinned |-> row.archived # 0])

\* Lines 215-221.
GetPrefs(db, chat_id) ==
    IF chat_id \notin DOMAIN db.chats
    THEN Rollback(db, "KeyError")
    ELSE LET prefs == db.chats[chat_id].prefs
         IN  Commit(db, JsonLoads(IF prefs = <<>> THEN EmptyObject ELSE prefs).val)

\* Lines 233-239.
GetSettings(db, chat_id) ==
    IF chat_id \notin DOMAIN db.chats
    THEN Rollback(db, "KeyError")
    ELSE LET settings == db.chats[chat_id].settings
         IN  Commit(db, JsonLoads(IF settings = <<>> THEN EmptyObject ELSE settings).val)

\* Lines 297-303: one append_messages call per message of the original.
RECURSIVE AppendEach(_, _, _)
AppendEach(db, chat_id, msgs) ==
    IF msgs = <<>> THEN db
    ELSE AppendEach(AppendMessages(db, chat_id, <<Head(msgs)>>).db, chat_id,
                    Tail(msgs))

\* Lines 290-304: get_chat with msg_id as its limit, create_chat, then the
\* messages one by one.
ForkChat(db, chat_id, msg_id) ==
    LET original == GetChat(db, chat_id, msg_id, 0)
    IN  IF original.raised # ""
        THEN Rollback(db, original.raised)
        ELSE LET new_chat == CreateChat(db, original.value.chat.title \o ForkSuffix)
             IN  Commit(AppendEach(new_chat.db, new_chat.value.id,
                                   original.value.messages),
                        new_chat.value)

varsNotChat ==
    <<varsScan, varsRoute, varsRerank, reply, max_size, varsRetrieve, varsIngest,
      varsCache, varsWeb>>

\* The n-th call, of op with chat_id and arg, ended as res says: the database
\* is the one res holds and the call is the last one made.
Called(op, chat_id, arg, res) ==
    /\ last_op.n < MaxCalls
    /\ chats' = res.db.chats
    /\ messages' = res.db.messages
    /\ tags' = res.db.tags
    /\ msg_seq' = res.db.msg_seq
    /\ chat_seq' = res.db.chat_seq
    /\ last_op' = [n |-> last_op.n + 1, op |-> op, chat_id |-> chat_id,
                   arg |-> arg, raised |-> res.raised, value |-> res.value]
    /\ UNCHANGED varsNotChat

DoCreateChat ==
    /\ chat_seq < MaxChats
    /\ \E title \in Titles :
          Called("create_chat", chat_seq + 1, title, CreateChat(Db, title))

DoRenameChat ==
    \E c \in ChatIds : \E title \in NewTitles :
        Called("rename_chat", c, title, RenameChat(Db, c, title))

DoSetArchived ==
    \E c \in ChatIds : \E archived \in BOOLEAN :
        Called("set_archived", c, archived, SetArchived(Db, c, archived))

DoSetPinned ==
    \E c \in ChatIds : \E pinned \in BOOLEAN :
        Called("set_pinned", c, pinned, SetPinned(Db, c, pinned))

DoAppendMessages ==
    \E c \in ChatIds : \E msgs \in MessageLists :
        /\ msg_seq + Len(msgs) <= MaxMsgs
        /\ Called("append_messages", c, msgs, AppendMessages(Db, c, msgs))

DoClearChat ==
    \E c \in ChatIds : Called("clear_chat", c, <<>>, ClearChat(Db, c))

DoDeleteChat ==
    \E c \in ChatIds : Called("delete_chat", c, <<>>, DeleteChat(Db, c))

DoAddTag ==
    \E c \in ChatIds : \E tag \in TagArgs :
        Called("add_tag", c, tag, AddTag(Db, c, tag))

DoTogglePinned ==
    \E c \in ChatIds : Called("toggle_pinned", c, <<>>, TogglePinned(Db, c))

DoToggleArchived ==
    \E c \in ChatIds : Called("toggle_archived", c, <<>>, ToggleArchived(Db, c))

DoGetPrefs ==
    \E c \in ChatIds : Called("get_prefs", c, <<>>, GetPrefs(Db, c))

DoGetSettings ==
    \E c \in ChatIds : Called("get_settings", c, <<>>, GetSettings(Db, c))

DoForkChat ==
    \E c \in ChatIds : \E msg_id \in 1..MaxMsgs :
        LET res == ForkChat(Db, c, msg_id)
        IN  /\ chat_seq < MaxChats
            /\ res.db.msg_seq <= MaxMsgs
            /\ Called("fork_chat", c, msg_id, res)

InitChat ==
    /\ ChatIdle
    /\ WebIdle
    /\ max_size = LargeCap
    /\ reply = Pending
    /\ ScanIdle
    /\ RouteIdle
    /\ RerankIdle
    /\ RetrieveIdle
    /\ IngestIdle
    /\ CacheIdle

NextChat ==
    \/ DoCreateChat
    \/ DoRenameChat
    \/ DoSetArchived
    \/ DoSetPinned
    \/ DoAppendMessages
    \/ DoClearChat
    \/ DoDeleteChat
    \/ DoAddTag
    \/ DoTogglePinned
    \/ DoToggleArchived
    \/ DoGetPrefs
    \/ DoGetSettings
    \/ DoForkChat

SpecChat == InitChat /\ [][NextChat]_vars

\* C27: toggle_pinned on an existing chat flips the stored pinned flag, leaves
\* the archived flag as it was and returns the new state of the chat: the
\* 'pinned' and 'archived' it returns are the flags stored after the call;
\* toggle_archived does the same with the two flags exchanged; and a second
\* toggle brings the stored row back to what it was.
C27_ToggleReturnsNewState ==
    [][\A c \in DOMAIN chats :
          /\ (last_op'.op = "toggle_pinned" /\ last_op'.chat_id = c) =>
                /\ (chats'[c].pinned # 0) = (chats[c].pinned = 0)
                /\ chats'[c].archived = chats[c].archived
                /\ last_op'.value.pinned = (chats'[c].pinned # 0)
                /\ last_op'.value.archived = (chats'[c].archived # 0)
                /\ TogglePinned(Db', c).db.chats[c] = chats[c]
          /\ (last_op'.op = "toggle_archived" /\ last_op'.chat_id = c) =>
                /\ (chats'[c].archived # 0) = (chats[c].archived = 0)
                /\ chats'[c].pinned = chats[c].pinned
                /\ last_op'.value.archived = (chats'[c].archived # 0)
                /\ last_op'.value.pinned = (chats'[c].pinned # 0)
                /\ ToggleArchived(Db', c).db.chats[c] = chats[c]]_vars

\* The role and content of each row, in order.
RoleContent(rows) ==
    [k \in 1..Len(rows) |-> [role |-> rows[k].role, content |-> rows[k].content]]

\* The messages of chat_id whose id is at most msg_id, in the order of id.
UpTo(msgs, chat_id, msg_id) ==
    SelectSeq(MessagesOf(msgs, chat_id), LAMBDA m : m.id <= msg_id)

\* C28: fork_chat(chat_id, msg_id) creates a new chat whose messages (role
\* and content, in order) are exactly the messages of the original chat with
\* id <= msg_id, whatever ids the messages of the original have, and leaves
\* the original chat and its messages as they were.
C28_ForkCopiesUpToMsgId ==
    [][(last_op'.op = "fork_chat" /\ last_op'.raised = "") =>
          LET c == last_op'.chat_id
              new == last_op'.value.id
          IN  /\ new \notin DOMAIN chats
              /\ new \in DOMAIN chats'
              /\ RoleContent(MessagesOf(messages', new)) =
                     RoleContent(UpTo(messages, c, last_op'.arg))
              /\ MessagesOf(messages', c) = MessagesOf(messages, c)
              /\ chats'[c] = chats[c]]_vars

\* The operations that are to report a chat that does not exist.
NotFoundOps ==
    {"rename_chat", "set_archived", "set_pinned", "append_messages",
     "clear_chat", "delete_chat", "toggle_pinned", "toggle_archived",
     "get_prefs", "get_settings", "add_tag"}

\* C29: each of rename_chat, set_archived, set_pinned, append_messages,
\* clear_chat, delete_chat, toggle_pinned, toggle_archived, get_prefs,
\* get_settings and add_tag (with a well-formed tag), called with a chat_id
\* no chat has, raises KeyError and leaves the chats, messages and tags
\* tables as they were.
C29_MissingChatRaisesKeyError ==
    [][(/\ last_op'.op \in NotFoundOps
        /\ last_op'.chat_id \notin DOMAIN chats
        /\ last_op'.op = "add_tag" => TagMatches(last_op'.arg)) =>
          /\ last_op'.raised = "KeyError"
          /\ chats' = chats
          /\ messages' = messages
          /\ tags' = tags]_vars

\* ------------------------------------------------------------------------
\* webstore.py: fetch_and_cache
\* ------------------------------------------------------------------------

\* How many fetch_and_cache calls run side by side.
NFetch == 2

Fetchers == 1..NFetch

\* The URLs asked for: hosts "ok", "ev", "nev", "okx" and "EV", and a path
\* with no host.
UrlOk == <<"h", ":", "/", "/", "o", "k", "/">>

UrlEv == <<"h", ":", "/", "/", "e", "v", "/">>

UrlNev == <<"h", ":", "/", "/", "n", "e", "v", "/">>

UrlOkx == <<"h", ":", "/", "/", "o", "k", "x", ":", "8", "/">>

UrlUpper == <<"h", ":", "/", "/", "E", "V">>

UrlPath == <<"/", "p">>

Urls == {UrlOk, UrlEv, UrlNev, UrlOkx, UrlUpper, UrlPath}

\* The values of config.web_allowed_hosts and config.web_blocked_hosts: not
\* set, one host, two hosts.
AllowedSettings == {<<>>, <<"o", "k">>, <<"o", "k", ",", "n", "e", "v">>}

BlockedSettings == {<<>>, <<"e", "v">>}

\* What the server answers.
Bodies == {<<"p">>, <<"q">>}

\* str.lower() over the letters the URLs are made of.
LowerChar(c) == IF c = "E" THEN "e" ELSE IF c = "V" THEN "v" ELSE c

Lower(txt) == [k \in 1..Len(txt) |-> LowerChar(txt[k])]

\* The first index from which txt holds one of the characters cs, or
\* Len(txt) + 1.
FirstOf(txt, cs) ==
    IF \E n \in 1..Len(txt) : txt[n] \in cs
    THEN CHOOSE n \in 1..Len(txt) :
            txt[n] \in cs /\ \A m \in 1..(n - 1) : txt[m] \notin cs
    ELSE Len(txt) + 1

\* Line 43-44: urlparse(url).hostname. The network location is what follows
\* "//" after the scheme, up to the first "/", "?" or "#"; the host name is
\* what follows its last "@", up to a ":", in lower case; None when there is
\* none.
Hostname(url) ==
    LET colon == Find(url, ":")
        rest == IF colon > 1 /\ FirstOf(url, {"/", "?", "#"}) > colon
                THEN SubSeq(url, colon + 1, Len(url)) ELSE url
        has_netloc == Len(rest) >= 2 /\ rest[1] = "/" /\ rest[2] = "/"
        after == SubSeq(rest, 3, Len(rest))
        netloc == SubSeq(after, 1, FirstOf(after, {"/", "?", "#"}) - 1)
        hostinfo == SubSeq(netloc, RFind(netloc, "@") + 1, Len(netloc))
        host == SubSeq(hostinfo, 1, FirstOf(hostinfo, {":"}) - 1)
    IN  IF has_netloc /\ host # <<>> THEN PyStr(Lower(host)) ELSE PyNone

\* str.split(","): the pieces between the commas; one empty piece for the
\* empty text.
RECURSIVE Split(_)
Split(txt) ==
    LET comma == Find(txt, ",")
    IN  IF comma = 0 THEN <<txt>>
        ELSE <<SubSeq(txt, 1, comma - 1)>> \o Split(SubSeq(txt, comma + 1, Len(txt)))

\* "sub in txt" for two texts.
In(sub, txt) ==
    \E k \in 0..(Len(txt) - Len(sub)) : SubSeq(txt, k + 1, k + Len(sub)) = sub

\* any(x in host for x in entries)
AnyIn(entries, host) == \E k \in 1..Len(entries) : In(entries[k], host)

\* Lines 43-51: how the checks before the request end for url: "" when the
\* request is to be sent. A host of None makes "b in host" raise TypeError.
Guard(url, allowed_hosts, blocked_hosts) ==
    LET host == Hostname(url)
        allowed == Split(allowed_hosts)
        blocked == Split(blocked_hosts)
    IN  IF blocked # <<>> /\ host = PyNone THEN "TypeError"
        ELSE IF blocked # <<>> /\ AnyIn(blocked, host.s) THEN "Host is blocked"
        ELSE IF allowed # <<>> /\ host = PyNone THEN "TypeError"
        ELSE IF allowed # <<>> /\ ~AnyIn(allowed, host.s) THEN "Host not allowed"
        ELSE ""

NoFetch == [pc |-> "idle", url |-> <<>>, raised |-> "", value |-> PyNone]

varsNotWeb ==
    <<varsScan, varsRoute, varsRerank, reply, max_size, varsRetrieve, varsIngest,
      varsCache, varsChat>>

\* Lines 43-53: call f up to the await of client.get, or to the exception
\* one of the checks raises.
FetchCall(f) ==
    /\ fetches[f].pc = "idle"
    /\ \E url \in Urls :
          LET raised == Guard(url, web_allowed_hosts, web_blocked_hosts)
          IN  IF raised # ""
              THEN /\ fetches' = [fetches EXCEPT ![f] =
                         [pc |-> "done", url |-> url, raised |-> raised,
                          value |-> PyNone]]
                   /\ UNCHANGED requests
              ELSE /\ fetches' = [fetches EXCEPT ![f] =
                         [pc |-> "get", url |-> url, raised |-> "",
                          value |-> PyNone]]
                   /\ requests' = Append(requests, [by |-> f, url |-> url])
    /\ UNCHANGED <<web_allowed_hosts, web_blocked_hosts, pages, chunks, chunk_seq>>
    /\ UNCHANGED varsNotWeb

\* Lines 53-54: the request of call f failed, or the status of the answer
\* makes raise_for_status raise.
FetchFailed(f) ==
    /\ fetches[f].pc = "get"
    /\ fetches' = [fetches EXCEPT ![f].pc = "done", ![f].raised = "HTTPError"]
    /\ UNCHANGED <<web_allowed_hosts, web_blocked_hosts, pages, chunks, chunk_seq,
                   requests>>
    /\ UNCHANGED varsNotWeb

\* Lines 55-62: the answer came: the page replaces the one stored for the
\* url, the chunks of the url are deleted and the text becomes its one chunk.
\* The timestamp column is not modelled.
FetchStored(f) ==
    /\ fetches[f].pc = "get"
    /\ \E body \in Bodies :
          LET url == fetches[f].url
          IN  /\ pages' = [u \in DOMAIN pages \cup {url} |->
                              IF u = url THEN body ELSE pages[u]]
              /\ chunks' = Append(SelectSeq(chunks, LAMBDA c : c.url # url),
                                  [id |-> chunk_seq + 1, url |-> url, text |-> body])
              /\ chunk_seq' = chunk_seq + 1
              /\ fetches' = [fetches EXCEPT ![f].pc = "done", ![f].value = PyStr(body)]
    /\ UNCHANGED <<web_allowed_hosts, web_blocked_hosts, requests>>
    /\ UNCHANGED varsNotWeb

InitWeb ==
    /\ web_allowed_hosts \in AllowedSettings
    /\ web_blocked_hosts \in BlockedSettings
    /\ pages = <<>>
    /\ chunks = <<>>
    /\ chunk_seq = 0
    /\ fetches = [f \in Fetchers |-> NoFetch]
    /\ requests = <<>>
    /\ ChatIdle
    /\ max_size = LargeCap
    /\ reply = Pending
    /\ ScanIdle
    /\ RouteIdle
    /\ RerankIdle
    /\ RetrieveIdle
    /\ IngestIdle
    /\ CacheIdle

NextWeb ==
    \E f \in Fetchers :
        \/ FetchCall(f)
        \/ FetchFailed(f)
        \/ FetchStored(f)

SpecWeb == InitWeb /\ [][NextWeb]_vars

\* The hosts a setting lists; none when it is not set.
Listed(setting) ==
    IF setting = <<>> THEN {}
    ELSE {Split(setting)[k] : k \in 1..Len(Split(setting))}

\* The host is to be rejected: it is a blocked host, or there is an
\* allow-list and the host is not on it.
ToReject(host) ==
    \/ host \in Listed(web_blocked_hosts)
    \/ Listed(web_allowed_hosts) # {} /\ host \notin Listed(web_allowed_hosts)

\* C30: fetch_and_cache rejects a URL exactly when its host is one of the
\* blocked hosts, or an allow-list is set and the host is not one of its
\* entries; with both settings empty no host is rejected; and a rejected URL
\* sends no HTTP request and leaves the pages and chunks tables as they were.
C30_RejectsExactlyListedHosts ==
    [][\A f \in Fetchers :
          (/\ fetches[f].pc = "idle"
           /\ fetches'[f].pc # "idle"
           /\ Hostname(fetches'[f].url) # PyNone) =>
              LET host == Hostname(fetches'[f].url).s
                  rejected == fetches'[f].pc = "done"
              IN  /\ rejected <=> ToReject(host)
                  /\ (web_allowed_hosts = <<>> /\ web_blocked_hosts = <<>>) => ~rejected
                  /\ rejected =>
                        /\ requests' = requests
                        /\ pages' = pages
                        /\ chunks' = chunks]_vars

====
